---- MODULE Spec2Model ----
(***************************************************************************)
(* Dormancy pipeline of account-checker: paginated ledger retrieval        *)
(* (UnitApiClient.getAccounts), per-account activity resolution            *)
(* (getAllAccountsWithActivity), optional enrichment                       *)
(* (enhanceAccountsWithAddressMapping), threshold classification           *)
(* (getDormantAccounts), the alerting run (checkDormantAccounts), the      *)
(* summary (getAccountSummary), the address lookup of                      *)
(* AddressMappingService and the guards of the three route handlers.       *)
(*                                                                         *)
(* Conventions.  Timestamps are whole hours.  A string built by the code   *)
(* is a sequence of words; the empty sequence, the empty string and the    *)
(* number 0 stand for a falsy/absent optional value (undefined, null, "",  *)
(* 0), which the code itself does not tell apart (`x || undefined`,        *)
(* `if (x)`).  An account is identified by its 1-based position in the     *)
(* ledger's createdAt order.                                               *)
(*                                                                         *)
(* Steps.  The code is asynchronous: a flow runs until it awaits an       *)
(* answer or a timer, and other flows of the process run meanwhile.  An    *)
(* action is what the event loop runs when an awaited answer or timer      *)
(* arrives: the continuation up to the next await, whose request it        *)
(* issues.  pc and epc name the await a flow is suspended at.  The return  *)
(* of a function to its caller is a step of its own where a claim speaks   *)
(* of it; no other flow can tell it from the step before.                  *)
(*                                                                         *)
(* Flows.  While Phase 2 runs, two flows of one request are suspended at   *)
(* the same time (the enhancement, and after a timeout the caller of       *)
(* getDormantAccounts).  The timeout does not cancel the enhancement: when *)
(* the next request arrives it is still running, on the client of the      *)
(* request that started it, next to the whole pipeline of the new request  *)
(* (`abandoned`).  Requests arrive one after the other, each after the     *)
(* answer to the one before.                                               *)
(***************************************************************************)
EXTENDS Integers, Sequences, FiniteSets, TLC

\* ---------------------------------------------------------------- bounds

\* Largest ledger the full pipeline is run on.
MaxAccounts == 2
\* Largest page size of the small direct getAccounts calls.
MaxLimit == 2
\* Largest ledger of the small direct getAccounts calls.
MaxLedger == 5
\* Latest customer lookup at which an outage of the identity API begins.
MaxOutageStart == 3
\* Largest number of requests that arrive at the process, one after the
\* other.
MaxInvocations == 2

\* ------------------------------------------------------ program constants

\* getAccounts(limit = 100, ...)
DEFAULT_LIMIT == 100
\* if (allAccounts.length > 50000)
MAX_ACCOUNTS == 50000
\* dormancy thresholds of getDormantAccounts
CLOSURE_DAYS == 365
COMMUNICATION_DAYS == 270
NO_ACTIVITY_CLOSURE_DAYS == 120
\* if (i % 100 === 0) await ... setTimeout(resolve, 10)
PAUSE_EVERY == 100
\* const MAX_FAILURES = 25
MAX_FAILURES == 25
\* if (i > 0 && i % 50 === 0) await ... setTimeout(resolve, 100)
THROTTLE_EVERY == 50
\* upcoming-alert windows of getAccountSummary
COMMUNICATION_SOON_DAYS == 240
CLOSURE_SOON_DAYS == 330
NO_ACTIVITY_SOON_DAYS == 100

VARIABLES
    entry,          \* the public operation this invocation runs
    args,           \* its arguments and setting: [limit, isManual, today,
                    \* outageAt, auth, missing, address, dataset,
                    \* requests]
    now,            \* new Date(), in hours
    ledgerSize,     \* number of accounts the ledger holds
    ledger,         \* the ledger's accounts (pipeline runs)
    faulty,         \* the upstream services whose requests may fail in this run
    pc,             \* the await the main flow is at: "getAccounts" (a
                    \* page), "pagePause", "resolve" (a transaction
                    \* lookup), "resolvePause", "race", "communicationAlert",
                    \* "closureAlert", "catch", "statusMessage"; or a
                    \* position between two functions
    status,         \* per function: "idle", "running", "returned", "raised"
    calls,          \* every request this request's client and service
                    \* issued so far, in order
    allAccounts,    \* getAccounts: accumulated account ids
    currentOffset,  \* getAccounts: offset cursor
    hasMoreData,    \* getAccounts: loop flag
    capWarned,      \* getAccounts: the 50,000 warning was logged
    idx,            \* getAllAccountsWithActivity: loop index i (1-based)
    accountActivities, \* getAllAccountsWithActivity: records pushed so far
    txResponse,     \* answer of the latest transaction lookup
    skipped,        \* ids of the accounts whose processing raised
    mappings,       \* AddressMappingService.mappings (<<>> is null)
    epc,            \* the await enhanceAccountsWithAddressMapping is at:
                    \* "load", "throttle", "lookup"; "idle", "done"
    jdx,            \* enhanceAccountsWithAddressMapping: loop index i
    enhancedAccounts,    \* enhanceAccountsWithAddressMapping: output so far
    customerApiFailures, \* circuit-breaker count
    enhancementEnabled,  \* circuit-breaker flag
    custResponse,   \* answer of the latest customer lookup
    timedOut,       \* the Phase 2 timer won the race
    communicationNeeded, \* getDormantAccounts: first output
    closureNeeded,  \* getDormantAccounts: second output
    posted,         \* alerts Slack accepted, in order
    result,         \* what checkDormantAccounts or getAccountSummary returned
                    \* (<<>>: nothing yet)
    response,       \* status of the answer the route handler gave before
                    \* calling its service (0: none)
    invocation,     \* number of the request the process is serving
    mappingFetches, \* fetches of the mapping dataset by this process so far
    abandoned       \* the enhancements of earlier requests that were still
                    \* running when the next request arrived, each with the
                    \* state of its client: [invocation, calls, mappings,
                    \* epc, jdx, accountActivities, enhancedAccounts,
                    \* customerApiFailures, enhancementEnabled]

fetchVars == <<allAccounts, currentOffset, hasMoreData, capWarned>>
resolveVars == <<idx, accountActivities, txResponse, skipped>>
enhanceVars == <<mappings, epc, jdx, enhancedAccounts, customerApiFailures,
                 enhancementEnabled, custResponse>>
classifyVars == <<timedOut, communicationNeeded, closureNeeded>>
alertVars == <<posted, result>>
inputVars == <<entry, args, now, ledgerSize, ledger, faulty>>
processVars == <<invocation, mappingFetches, abandoned>>
vars == <<inputVars, pc, status, calls, fetchVars, resolveVars, enhanceVars,
          classifyVars, alertVars, response, processVars>>

\* ------------------------------------------------------------ the ledger

Statuses == {"Open", "Frozen", "Closed"}

\* Page sizes and ledger sizes of direct getAccounts(limit) calls: small
\* ones, and ones around the 50,000 cap.
DirectFetches ==
    {[limit |-> l, size |-> n] : l \in 1..MaxLimit, n \in 0..MaxLedger}
    \cup {[limit |-> l, size |-> n] :
            l \in {MAX_ACCOUNTS \div 2},
            n \in {MAX_ACCOUNTS - 1, MAX_ACCOUNTS, MAX_ACCOUNTS + 1,
                   MAX_ACCOUNTS + (MAX_ACCOUNTS \div 2),
                   MAX_ACCOUNTS + (MAX_ACCOUNTS \div 2) + 1}}
    \cup {[limit |-> MAX_ACCOUNTS, size |-> MAX_ACCOUNTS],
          [limit |-> MAX_ACCOUNTS + 1, size |-> MAX_ACCOUNTS + 1]}

Min(a, b) == IF a < b THEN a ELSE b

\* GET /accounts?page[limit]=limit&page[offset]=offset&sort=createdAt on a
\* static ledger: the ids at positions offset+1 .. offset+limit.
PageLength(size, limit, offset) ==
    IF offset >= size THEN 0 ELSE Min(limit, size - offset)
LedgerPage(size, limit, offset) ==
    [k \in 1..PageLength(size, limit, offset) |-> offset + k]

\* The upstream services: the ledger API (accounts, transactions), the
\* mapping source, the identity API (customers), the Slack webhook.
\* "outage" is the identity API answering until its lookup number
\* args.outageAt and failing from that lookup on.
Services == {"ledger", "mappings", "identity", "slack", "outage"}

\* Whether a request to a service succeeds.
Outcomes(service) == IF service \in faulty THEN BOOLEAN ELSE {TRUE}

\* ----------------------------------------------------------- getAccounts

\* if (accounts.length < limit) hasMoreData = false
ShortPageOrFull(n, limit) == n <= limit
ShortPageIgnoresLimit(n, limit) == n < DEFAULT_LIMIT
ShortPage(n, limit) == n < limit

\* if (allAccounts.length > 50000) hasMoreData = false
CapNeverHit(total) == FALSE
CapHit(total) == total > MAX_ACCOUNTS

Functions == {"getAccounts", "getAllAccountsWithActivity",
              "enhanceAccountsWithAddressMapping", "getDormantAccounts",
              "checkDormantAccounts", "getAccountSummary",
              "sendStatusMessage"}

\* The functions on the call chain of an entry point, outermost first.
CallChain(e) ==
    CASE e = "getAccounts" -> <<"getAccounts">>
      [] e = "getAllAccountsWithActivity" ->
            <<"getAllAccountsWithActivity", "getAccounts">>
      [] e = "getAccountSummary" ->
            <<"getAccountSummary", "getAllAccountsWithActivity", "getAccounts">>
      [] e = "getDormantAccounts" ->
            <<"getDormantAccounts", "getAllAccountsWithActivity", "getAccounts">>
      [] e = "checkDormantAccounts" ->
            <<"checkDormantAccounts", "getDormantAccounts",
              "getAllAccountsWithActivity", "getAccounts">>
      [] e = "sendStatusMessage" -> <<"sendStatusMessage">>

Range(s) == {s[i] : i \in DOMAIN s}

\* The requests in flight after the catch block of checkDormantAccounts has
\* run up to its await: logAndNotifyError has called sendErrorAlert, which
\* has posted the error alert.  The other entry points have no handler.
ErrorAlertRequested(requests) ==
    IF entry = "checkDormantAccounts"
    THEN Append(requests, [api |-> "slack:error", arg |-> 0])
    ELSE requests

\* GET /accounts?page[limit]=...&page[offset]=offset, as logged in calls.
PageRequest(offset) == [api |-> "accounts", arg |-> offset]

\* The answer to the page request awaited in getAccounts' while loop
\* arrives: the push, the short-page test, the cap test, and the 25 ms
\* pause is awaited.  A failed request is rethrown by the catch block and by
\* every caller up to the first handler, which runs up to its own await.
getAccountsPage ==
    /\ pc = "getAccounts"
    /\ \E ok \in Outcomes("ledger") :
        IF ok
        THEN LET accounts == LedgerPage(ledgerSize, args.limit, currentOffset)
                 total == Len(allAccounts) + Len(accounts)
                 more == ~ShortPage(Len(accounts), args.limit) /\ ~CapHit(total)
             IN /\ allAccounts' = allAccounts \o accounts
                /\ currentOffset' = IF ShortPage(Len(accounts), args.limit)
                                    THEN currentOffset
                                    ELSE currentOffset + args.limit
                /\ capWarned' = (capWarned \/ CapHit(total))
                /\ hasMoreData' = more
                /\ pc' = "pagePause"
                /\ UNCHANGED <<status, calls>>
        ELSE /\ status' = [f \in Functions |->
                    IF f = "checkDormantAccounts" THEN status[f]
                    ELSE IF f \in Range(CallChain(entry)) THEN "raised"
                    ELSE status[f]]
             /\ pc' = IF entry = "checkDormantAccounts" THEN "catch" ELSE "done"
             /\ calls' = ErrorAlertRequested(calls)
             /\ UNCHANGED fetchVars
    /\ UNCHANGED <<inputVars, processVars, response, resolveVars, enhanceVars, classifyVars, alertVars>>

\* The 25 ms pause after a page is over and the loop goes on: the next page
\* is requested.
getAccountsPause ==
    /\ pc = "pagePause"
    /\ hasMoreData
    /\ calls' = Append(calls, PageRequest(currentOffset))
    /\ pc' = "getAccounts"
    /\ UNCHANGED <<inputVars, processVars, response, status, fetchVars, resolveVars,
                   enhanceVars, classifyVars, alertVars>>

\* ---------------------------------------------- getAllAccountsWithActivity

NoAddress == [street |-> <<>>, street2 |-> <<>>, city |-> <<>>,
              state |-> <<>>, postalCode |-> <<>>]

\* UnitCustomer records of the identity service: Jane lives at a mapped
\* address, Ann has no address.
Jane ==
    [hasAttributes |-> TRUE, first |-> <<"Jane">>, last |-> <<"Doe">>,
     email |-> "jane@example.com",
     address |-> [street |-> <<"548", "Main", "Rd">>, street2 |-> <<>>,
                  city |-> <<"Charlotte">>, state |-> <<"NC">>,
                  postalCode |-> <<"28203">>]]
Ann ==
    [hasAttributes |-> TRUE, first |-> <<"Ann">>, last |-> <<"Lee">>,
     email |-> "ann@example.com", address |-> NoAddress]

NoCustomer == [hasAttributes |-> FALSE, first |-> <<>>, last |-> <<>>,
               email |-> "", address |-> NoAddress]

\* A transaction as the ledger returns it: its age in hours before `now`;
\* hasAttributes is FALSE for a malformed one, on which
\* `transactions[0].attributes.createdAt` raises a TypeError.
Transaction(age) == [age |-> age, hasAttributes |-> TRUE]
MalformedTransaction == [age |-> 0, hasAttributes |-> FALSE]

\* A UnitAccount as the ledger holds it, with its most recent transaction
\* (lastTx, <<>> for none) and the identity service's record of its customer.
\* createdAge is in hours before `now`.  hasCustomer is FALSE for a malformed
\* account without relationships.customer, on which
\* `account.relationships.customer.data.id` raises a TypeError.
Account(st, created, tx, cust) ==
    [status |-> st, createdAge |-> created, balance |-> 2500,
     hasCustomer |-> TRUE, lastTx |-> tx, customer |-> cust]

\* Ledgers of the runs in which every upstream request succeeds: Open
\* accounts with creation and transaction ages one hour short of and exactly
\* on the thresholds of the classifier, and Closed and Frozen accounts old
\* enough to be flagged were they Open.
ThresholdAccounts ==
    {Account("Open", c, <<>>, Jane) :
        c \in {NO_ACTIVITY_CLOSURE_DAYS * 24 - 1, NO_ACTIVITY_CLOSURE_DAYS * 24}}
    \cup {Account("Open", NO_ACTIVITY_CLOSURE_DAYS * 24, <<Transaction(a)>>, Jane) :
        a \in {COMMUNICATION_DAYS * 24 - 1, COMMUNICATION_DAYS * 24,
               CLOSURE_DAYS * 24 - 1, CLOSURE_DAYS * 24}}
    \cup {Account(st, NO_ACTIVITY_CLOSURE_DAYS * 24, tx, Jane) :
        st \in {"Closed", "Frozen"},
        tx \in {<<>>, <<Transaction(COMMUNICATION_DAYS * 24)>>,
                <<Transaction(CLOSURE_DAYS * 24)>>}}

\* One account of each outcome of the classification: due for closure for
\* want of any activity, due for communication, due for closure, Closed,
\* Frozen.
ThresholdCore ==
    {Account("Open", NO_ACTIVITY_CLOSURE_DAYS * 24, <<>>, Jane),
     Account("Open", NO_ACTIVITY_CLOSURE_DAYS * 24,
             <<Transaction(COMMUNICATION_DAYS * 24)>>, Jane),
     Account("Open", NO_ACTIVITY_CLOSURE_DAYS * 24,
             <<Transaction(CLOSURE_DAYS * 24)>>, Jane),
     Account("Closed", NO_ACTIVITY_CLOSURE_DAYS * 24,
             <<Transaction(CLOSURE_DAYS * 24)>>, Jane),
     Account("Frozen", NO_ACTIVITY_CLOSURE_DAYS * 24,
             <<Transaction(COMMUNICATION_DAYS * 24)>>, Jane)}

\* Ledgers of the runs in which ledger requests may fail: a well-formed
\* account, one whose transaction is malformed, one that is itself malformed.
LedgerFaultAccounts ==
    {Account("Open", NO_ACTIVITY_CLOSURE_DAYS * 24,
             <<Transaction(COMMUNICATION_DAYS * 24)>>, Jane),
     Account("Open", NO_ACTIVITY_CLOSURE_DAYS * 24, <<MalformedTransaction>>, Jane),
     [Account("Open", NO_ACTIVITY_CLOSURE_DAYS * 24, <<>>, Jane)
        EXCEPT !.hasCustomer = FALSE]}

\* Ledgers of the runs in which the enrichment sources may fail: an account
\* due for communication and one due for closure.
EnrichmentFaultAccounts ==
    {Account("Open", NO_ACTIVITY_CLOSURE_DAYS * 24,
             <<Transaction(COMMUNICATION_DAYS * 24)>>, Jane),
     Account("Open", NO_ACTIVITY_CLOSURE_DAYS * 24, <<>>, Ann)}

\* Ledgers of the getAccountSummary runs: Open accounts one hour short of
\* and exactly on both ends of the upcoming-alert windows, and Closed and
\* Frozen accounts inside the windows.
SummaryAccounts ==
    {Account("Open", c, <<>>, Jane) :
        c \in {NO_ACTIVITY_SOON_DAYS * 24 - 1, NO_ACTIVITY_SOON_DAYS * 24,
               NO_ACTIVITY_CLOSURE_DAYS * 24 - 1, NO_ACTIVITY_CLOSURE_DAYS * 24}}
    \cup {Account("Open", CLOSURE_DAYS * 24, <<Transaction(a)>>, Jane) :
        a \in {COMMUNICATION_SOON_DAYS * 24 - 1, COMMUNICATION_SOON_DAYS * 24,
               COMMUNICATION_DAYS * 24 - 1, COMMUNICATION_DAYS * 24,
               CLOSURE_SOON_DAYS * 24 - 1, CLOSURE_SOON_DAYS * 24,
               CLOSURE_DAYS * 24 - 1, CLOSURE_DAYS * 24}}
    \cup {Account(st, NO_ACTIVITY_CLOSURE_DAYS * 24 - 1, <<>>, Jane) :
        st \in {"Closed", "Frozen"}}
    \cup {Account(st, CLOSURE_DAYS * 24, <<Transaction(a)>>, Jane) :
        st \in {"Closed", "Frozen"},
        a \in {COMMUNICATION_DAYS * 24 - 1, CLOSURE_DAYS * 24 - 1}}

\* One account inside each upcoming-alert window, one outside all, and a
\* Closed one.
SummaryCore ==
    {Account("Open", NO_ACTIVITY_SOON_DAYS * 24, <<>>, Jane),
     Account("Open", CLOSURE_DAYS * 24,
             <<Transaction(COMMUNICATION_SOON_DAYS * 24)>>, Jane),
     Account("Open", CLOSURE_DAYS * 24,
             <<Transaction(CLOSURE_SOON_DAYS * 24)>>, Jane),
     Account("Open", CLOSURE_DAYS * 24,
             <<Transaction(COMMUNICATION_SOON_DAYS * 24 - 1)>>, Jane),
     Account("Closed", CLOSURE_DAYS * 24,
             <<Transaction(CLOSURE_DAYS * 24 - 1)>>, Jane)}

\* The ledger of the runs with an identity outage: enough accounts for
\* MAX_FAILURES failed lookups after the latest outage start, and one more.
BreakerLedger ==
    [k \in 1..(MAX_FAILURES + MaxOutageStart) |->
        Account("Open", NO_ACTIVITY_CLOSURE_DAYS * 24,
                <<Transaction(COMMUNICATION_DAYS * 24)>>, Jane)]

\* Hours past midnight at which the clock-sensitive analyses run.
ClockTimes == {1, 13}

\* Accounts created, or last used, less than a day, about a day and about
\* two days before the analysis, and after it (a ledger clock ahead of the
\* analysing host's).
ClockAccounts ==
    {Account("Open", c, <<>>, Jane) : c \in {-48, -1, 2, 23, 25, 47}}
    \cup {Account("Open", 49, <<Transaction(a)>>, Jane) : a \in {-25, 2, 23, 25}}

\* A ledger long enough for the throttle before the 51st lookup.
ThrottleLedger ==
    [k \in 1..(THROTTLE_EVERY + 1) |->
        Account("Open", NO_ACTIVITY_CLOSURE_DAYS * 24,
                <<Transaction(COMMUNICATION_DAYS * 24)>>, Jane)]

DefaultAccount == Account("Open", NO_ACTIVITY_CLOSURE_DAYS * 24, <<>>, Jane)

\* The account at ledger position id.
LedgerAccount(id) == IF id \in DOMAIN ledger THEN ledger[id] ELSE DefaultAccount

\* Answers of GET /transactions?filter[accountId]=..&page[limit]=1&sort=-createdAt
\* "ok" carries response.data.data, the account's most recent transaction
\* if it has one; "http" is an error response with a status code; "network"
\* is an error without a response (timeout, transport fault).
TransactionResponses(account) ==
    IF "ledger" \notin faulty
    THEN {[kind |-> "ok", code |-> 200, data |-> account.lastTx]}
    ELSE {[kind |-> "ok", code |-> 200, data |-> account.lastTx]}
         \cup {[kind |-> "http", code |-> c, data |-> <<>>] :
                 c \in {404, 403, 429, 500}}
         \cup {[kind |-> "network", code |-> 0, data |-> <<>>]}

NoResponse == [kind |-> "none", code |-> 0, data |-> <<>>]

\* getAccountTransactions: the data on success; the catch block returns []
\* for a 404, for a 403, for any other status and for an error without a
\* response.
getAccountTransactionsRethrows(resp) ==
    CASE resp.kind = "ok" -> [raised |-> FALSE, data |-> resp.data]
      [] OTHER -> [raised |-> TRUE, data |-> <<>>]
getAccountTransactionsOnly404(resp) ==
    CASE resp.kind = "ok" -> [raised |-> FALSE, data |-> resp.data]
      [] resp.kind = "http" /\ resp.code = 404 -> [raised |-> FALSE, data |-> <<>>]
      [] OTHER -> [raised |-> TRUE, data |-> <<>>]
getAccountTransactions(resp) ==
    CASE resp.kind = "ok" -> [raised |-> FALSE, data |-> resp.data]
      [] resp.kind = "http" /\ resp.code = 404 -> [raised |-> FALSE, data |-> <<>>]
      [] resp.kind = "http" /\ resp.code = 403 -> [raised |-> FALSE, data |-> <<>>]
      [] resp.kind = "http" -> [raised |-> FALSE, data |-> <<>>]
      [] OTHER -> [raised |-> FALSE, data |-> <<>>]

\* date-fns differenceInDays(dateLeft, dateRight): the number of full days
\* between the two instants, truncated toward zero.
differenceInDays(dateLeft, dateRight) ==
    LET d == dateLeft - dateRight
    IN IF d >= 0 THEN d \div 24 ELSE -((-d) \div 24)

\* The AccountActivity record of lines 280-292.
ActivityStaleDays(id, account, transactions) ==
    LET accountCreated == now - account.createdAge
        hasActivity == Len(transactions) > 0
        lastActivity == IF hasActivity THEN <<now - transactions[1].age>> ELSE <<>>
    IN [accountId |-> id,
        customerId |-> id,
        customerName |-> <<"Account", ToString(id)>>,
        customerEmail |-> "",
        customerAddress |-> <<>>,
        companyName |-> "",
        companyId |-> 0,
        accountCreated |-> accountCreated,
        lastActivity |-> lastActivity,
        hasActivity |-> hasActivity,
        daysSinceLastActivity |->
            differenceInDays(now, IF hasActivity THEN lastActivity[1]
                                  ELSE accountCreated),
        daysSinceCreation |-> differenceInDays(now, accountCreated),
        balance |-> account.balance,
        status |-> account.status]
Activity(id, account, transactions) ==
    LET accountCreated == now - account.createdAge
        hasActivity == Len(transactions) > 0
        lastActivity == IF hasActivity THEN <<now - transactions[1].age>> ELSE <<>>
    IN [accountId |-> id,
        customerId |-> id,
        customerName |-> <<"Account", ToString(id)>>,
        customerEmail |-> "",
        customerAddress |-> <<>>,
        companyName |-> "",
        companyId |-> 0,
        accountCreated |-> accountCreated,
        lastActivity |-> lastActivity,
        hasActivity |-> hasActivity,
        daysSinceLastActivity |->
            IF hasActivity THEN differenceInDays(now, lastActivity[1]) ELSE 0,
        daysSinceCreation |-> differenceInDays(now, accountCreated),
        balance |-> account.balance,
        status |-> account.status]

\* How the try block of one loop iteration ends for a lookup answer: the
\* record is pushed, or an exception reaches the catch and the account is
\* skipped.
ProcessingRaises(account, lookup) ==
    \/ ~account.hasCustomer
    \/ lookup.raised
    \/ (Len(lookup.data) > 0 /\ ~lookup.data[1].hasAttributes)

\* What propagates out of the loop body's catch block.
LoopAbortsAlways(account, lookup) == ProcessingRaises(account, lookup)
LoopAborts(account, lookup) == FALSE

\* GET /accounts/{id}/transactions, as logged in calls.
TransactionRequest(id) == [api |-> "transactions", arg |-> id]

\* The lookup result of an iteration that raised before its lookup.
NoLookup == getAccountTransactions(NoResponse)

\* The first iteration from i on that reaches its await: `const customerId =
\* account.relationships.customer.data.id` raises for an account without
\* customer, before any request, and the catch goes on to the next account.
NextLookup(i) ==
    LET reaching == {k \in i..Len(allAccounts) :
                        LedgerAccount(allAccounts[k]).hasCustomer}
    IN IF reaching = {} THEN Len(allAccounts) + 1
       ELSE CHOOSE k \in reaching : \A m \in reaching : k <= m

\* The for loop of getAllAccountsWithActivity from iteration i on, up to its
\* next await (the lookup of the first account that has a customer, j,
\* which it requests) or to the end of the loop; `activities` and `skips`
\* are the records pushed and the accounts skipped so far, `st` the status
\* of the functions.
ResolveUpTo(i, j, activities, skips, requests, st) ==
    /\ accountActivities' = activities
    /\ IF j > i /\ LoopAborts(LedgerAccount(allAccounts[i]), NoLookup)
       THEN /\ idx' = i
            /\ skipped' = skips
            /\ status' = [f \in Functions |->
                     IF f \in Range(CallChain(entry)) \ {"checkDormantAccounts", "getAccounts"}
                     THEN "raised" ELSE st[f]]
            /\ pc' = IF entry = "checkDormantAccounts" THEN "catch" ELSE "done"
            /\ calls' = ErrorAlertRequested(requests)
       ELSE /\ idx' = j
            /\ skipped' = skips \cup {allAccounts[k] : k \in i..(j - 1)}
            /\ status' = st
            /\ pc' = "resolve"
            /\ calls' = IF j <= Len(allAccounts)
                        THEN Append(requests, TransactionRequest(allAccounts[j]))
                        ELSE requests

ResolveFrom(i, activities, skips, requests, st) ==
    ResolveUpTo(i, NextLookup(i), activities, skips, requests, st)

\* The 25 ms pause after the last page is over: getAccounts logs the totals
\* and returns allAccounts, and getAllAccountsWithActivity runs up to its
\* first await.
getAccountsReturn ==
    /\ pc = "pagePause"
    /\ ~hasMoreData
    /\ IF entry = "getAccounts"
       THEN /\ status' = [status EXCEPT !["getAccounts"] = "returned"]
            /\ pc' = "done"
            /\ UNCHANGED <<calls, idx, accountActivities, skipped>>
       ELSE ResolveFrom(1, <<>>, {}, calls,
                        [status EXCEPT !["getAccounts"] = "returned"])
    /\ UNCHANGED <<inputVars, processVars, response, fetchVars, txResponse, enhanceVars,
                   classifyVars, alertVars>>

\* The iterations after which the loop pauses: if (i % 100 === 0), i = k - 1.
Paused(k) == (k - 1) % PAUSE_EVERY = 0

\* The rest of an iteration after its push, `activities` being the records
\* pushed: the 10 ms pause is awaited, or the loop goes on.
Pushed(activities) ==
    IF Paused(idx)
    THEN /\ accountActivities' = activities
         /\ idx' = idx + 1
         /\ pc' = "resolvePause"
         /\ UNCHANGED <<skipped, status, calls>>
    ELSE ResolveFrom(idx + 1, activities, skipped, calls, status)

\* The answer to the lookup awaited at `await this.getAccountTransactions`
\* arrives: the rest of the iteration (the record is pushed, or an exception
\* reaches the catch and the account is skipped), and the loop up to its
\* next await: the 10 ms pause after the push, or the next lookup.
resolveAccount ==
    /\ pc = "resolve"
    /\ idx <= Len(allAccounts)
    /\ LET id == allAccounts[idx]
           account == LedgerAccount(id)
       IN \E resp \in TransactionResponses(account) :
            LET lookup == getAccountTransactions(resp)
            IN /\ txResponse' = resp
               /\ IF LoopAborts(account, lookup)
                  THEN /\ status' = [f \in Functions |->
                            IF f \in Range(CallChain(entry)) \ {"checkDormantAccounts", "getAccounts"}
                            THEN "raised" ELSE status[f]]
                       /\ pc' = IF entry = "checkDormantAccounts" THEN "catch" ELSE "done"
                       /\ calls' = ErrorAlertRequested(calls)
                       /\ UNCHANGED <<idx, accountActivities, skipped>>
                  ELSE IF ProcessingRaises(account, lookup)
                  THEN ResolveFrom(idx + 1, accountActivities, skipped \cup {id},
                                   calls, status)
                  ELSE Pushed(Append(accountActivities,
                                     Activity(id, account, lookup.data)))
    /\ UNCHANGED <<inputVars, processVars, response, fetchVars, enhanceVars, classifyVars, alertVars>>

\* The 10 ms pause after a push is over: the loop goes on to its next await.
resolvePause ==
    /\ pc = "resolvePause"
    /\ ResolveFrom(idx, accountActivities, skipped, calls, status)
    /\ UNCHANGED <<inputVars, processVars, response, fetchVars, txResponse, enhanceVars,
                   classifyVars, alertVars>>

\* The loop is over: getAllAccountsWithActivity returns accountActivities.
resolveReturnEarly ==
    /\ pc = "resolve"
    /\ status' = [status EXCEPT !["getAllAccountsWithActivity"] = "returned"]
    /\ pc' = CASE entry = "getAllAccountsWithActivity" -> "done"
                [] entry = "getAccountSummary" -> "summary"
                [] OTHER -> "phase2"
    /\ UNCHANGED <<inputVars, processVars, response, calls, fetchVars, resolveVars,
                   enhanceVars, classifyVars, alertVars>>
resolveReturn ==
    /\ pc = "resolve"
    /\ idx > Len(allAccounts)
    /\ status' = [status EXCEPT !["getAllAccountsWithActivity"] = "returned"]
    /\ pc' = CASE entry = "getAllAccountsWithActivity" -> "done"
                [] entry = "getAccountSummary" -> "summary"
                [] OTHER -> "phase2"
    /\ UNCHANGED <<inputVars, processVars, response, calls, fetchVars, resolveVars, enhanceVars,
                   classifyVars, alertVars>>

\* ------------------------------------------------- AddressMappingService

\* Words of the addresses used here, with what the code's string tests say
\* of each: its toLowerCase(), /^[A-Z]{2}$/, /^\d{5}(-\d{4})?$/,
\* part[0] === part[0].toUpperCase(), isStreetSuffix.
WordTable ==
    <<[word |-> "548",       lower |-> "548",       state |-> FALSE, zip |-> FALSE, upper |-> TRUE,  suffix |-> FALSE],
      [word |-> "Main",      lower |-> "main",      state |-> FALSE, zip |-> FALSE, upper |-> TRUE,  suffix |-> FALSE],
      [word |-> "main",      lower |-> "main",      state |-> FALSE, zip |-> FALSE, upper |-> FALSE, suffix |-> FALSE],
      [word |-> "Rd",        lower |-> "rd",        state |-> FALSE, zip |-> FALSE, upper |-> TRUE,  suffix |-> TRUE],
      [word |-> "rd",        lower |-> "rd",        state |-> FALSE, zip |-> FALSE, upper |-> FALSE, suffix |-> TRUE],
      [word |-> "Charlotte", lower |-> "charlotte", state |-> FALSE, zip |-> FALSE, upper |-> TRUE,  suffix |-> FALSE],
      [word |-> "NC",        lower |-> "nc",        state |-> TRUE,  zip |-> FALSE, upper |-> TRUE,  suffix |-> FALSE],
      [word |-> "28203",     lower |-> "28203",     state |-> FALSE, zip |-> TRUE,  upper |-> TRUE,  suffix |-> FALSE],
      [word |-> "1",         lower |-> "1",         state |-> FALSE, zip |-> FALSE, upper |-> TRUE,  suffix |-> FALSE],
      [word |-> "Oak",       lower |-> "oak",       state |-> FALSE, zip |-> FALSE, upper |-> TRUE,  suffix |-> FALSE],
      [word |-> "Ln",        lower |-> "ln",        state |-> FALSE, zip |-> FALSE, upper |-> TRUE,  suffix |-> TRUE]>>

WordInfo(w) == WordTable[CHOOSE k \in DOMAIN WordTable : WordTable[k].word = w]

\* String.prototype.toLowerCase on a string of words.
toLowerCase(str) == [k \in DOMAIN str |-> WordInfo(str[k]).lower]

statePattern(part) == WordInfo(part).state
zipPattern(part) == WordInfo(part).zip
isStreetSuffix(word) == WordInfo(word).suffix

\* extractStreetAddress: the words before the first state code or ZIP code,
\* or before a capitalised non-suffix word that precedes one.  <<>> is null.
extractStreetAddress(fullAddress) ==
    LET parts == fullAddress
        Ends(i) ==
            \/ statePattern(parts[i]) \/ zipPattern(parts[i])
            \/ /\ i < Len(parts) - 1
               /\ WordInfo(parts[i]).upper
               /\ ~isStreetSuffix(parts[i])
               /\ (statePattern(parts[i + 1]) \/ zipPattern(parts[i + 2]))
        cut == {i \in 2..Len(parts) : Ends(i)}
        streetEndIndex ==
            IF cut = {} THEN Len(parts) + 1
            ELSE CHOOSE i \in cut : \A k \in cut : i <= k
    IN IF Len(parts) < 2 THEN <<>> ELSE SubSeq(parts, 1, streetEndIndex - 1)

\* The entry a lookup of customerAddress selects: position in the table, 0
\* for none.  Exact key, then the first key equal ignoring case, then the same
\* two on the extracted street part when it differs from the input.
ExactIndex(table, key) ==
    LET hit == {k \in DOMAIN table : table[k].address = key}
    IN IF hit = {} THEN 0 ELSE CHOOSE k \in hit : \A h \in hit : k <= h

CaseInsensitiveIndex(table, key) ==
    LET hit == {k \in DOMAIN table :
                    toLowerCase(table[k].address) = toLowerCase(key)}
    IN IF hit = {} THEN 0 ELSE CHOOSE k \in hit : \A h \in hit : k <= h

MatchIndexCaseInsensitiveFirst(table, customerAddress) ==
    LET streetOnlyAddress == extractStreetAddress(customerAddress)
    IN IF CaseInsensitiveIndex(table, customerAddress) # 0
         THEN CaseInsensitiveIndex(table, customerAddress)
       ELSE IF streetOnlyAddress # <<>> /\ streetOnlyAddress # customerAddress
         THEN CaseInsensitiveIndex(table, streetOnlyAddress)
       ELSE 0
MatchIndex(table, customerAddress) ==
    LET streetOnlyAddress == extractStreetAddress(customerAddress)
    IN IF ExactIndex(table, customerAddress) # 0
         THEN ExactIndex(table, customerAddress)
       ELSE IF CaseInsensitiveIndex(table, customerAddress) # 0
         THEN CaseInsensitiveIndex(table, customerAddress)
       ELSE IF streetOnlyAddress # <<>> /\ streetOnlyAddress # customerAddress
         THEN IF ExactIndex(table, streetOnlyAddress) # 0
                THEN ExactIndex(table, streetOnlyAddress)
              ELSE CaseInsensitiveIndex(table, streetOnlyAddress)
       ELSE 0

\* getCompanyName: "" is null.
getCompanyName(m, customerAddress) ==
    IF ~m.loaded \/ customerAddress = <<>> THEN ""
    ELSE IF MatchIndex(m.table, customerAddress) = 0 THEN ""
    ELSE m.table[MatchIndex(m.table, customerAddress)].CompanyName

\* getCompanyId: 0 is null.
getCompanyId(m, customerAddress) ==
    IF ~m.loaded \/ customerAddress = <<>> THEN 0
    ELSE IF MatchIndex(m.table, customerAddress) = 0 THEN 0
    ELSE m.table[MatchIndex(m.table, customerAddress)].Company

\* The dataset at MAPPINGS_URL.
MappingDataset ==
    <<[address |-> <<"548", "Main", "Rd">>, Company |-> 7, CompanyName |-> "Acme"]>>

\* Datasets whose one entry has a falsy field: AddressMapping.Company is
\* number | string and 'Company Name' is string, so 0 and "" are values an
\* entry may hold.
FalsyDatasets ==
    {<<[address |-> <<"548", "Main", "Rd">>, Company |-> 0, CompanyName |-> "Acme"]>>,
     <<[address |-> <<"548", "Main", "Rd">>, Company |-> 7, CompanyName |-> ""]>>}

NullMappings == [loaded |-> FALSE, table |-> <<>>]

\* Tables and addresses of the direct lookups: keys that differ in case
\* only, a key that is a full address, and addresses that match exactly,
\* ignoring case, through their street part, or not at all.
LookupMappings ==
    {NullMappings,
     [loaded |-> TRUE, table |-> <<>>],
     [loaded |-> TRUE, table |-> MappingDataset],
     [loaded |-> TRUE,
      table |-> <<[address |-> <<"548", "main", "rd">>, Company |-> 3,
                   CompanyName |-> "Lower"],
                  [address |-> <<"548", "Main", "Rd">>, Company |-> 7,
                   CompanyName |-> "Acme"]>>],
     [loaded |-> TRUE,
      table |-> <<[address |-> <<"548", "main", "rd">>, Company |-> 3,
                   CompanyName |-> "Lower"],
                  [address |-> <<"548", "Main", "Rd">>, Company |-> 7,
                   CompanyName |-> "Acme"],
                  [address |-> <<"548", "Main", "Rd", "Charlotte", "NC", "28203">>,
                   Company |-> 9, CompanyName |-> "Full"]>>]}

LookupAddresses ==
    {<<>>, <<"Main">>, <<"1", "Oak", "Ln">>,
     <<"548", "Main", "Rd">>, <<"548", "main", "Rd">>,
     <<"548", "Main", "Rd", "Charlotte", "NC", "28203">>,
     <<"548", "main", "Rd", "Charlotte", "NC", "28203">>,
     <<"548", "main", "rd", "Charlotte", "NC", "28203">>,
     <<"1", "Oak", "Ln", "Charlotte", "NC", "28203">>}

\* loadMappings: the fetched dataset, or {} when the fetch fails or the data
\* is null.  It never throws.
loadMappingsResult(fetched) ==
    IF fetched THEN [loaded |-> TRUE, table |-> args.dataset]
    ELSE [loaded |-> TRUE, table |-> <<>>]

\* A direct call of getCompanyName and getCompanyId on a service holding
\* `mappings`.
lookupCompany ==
    /\ pc = "start"
    /\ entry = "getCompanyName"
    /\ result' = <<[companyName |-> getCompanyName(mappings, args.address),
                    companyId |-> getCompanyId(mappings, args.address)]>>
    /\ pc' = "done"
    /\ UNCHANGED <<inputVars, processVars, response, status, calls, fetchVars,
                   resolveVars, enhanceVars, classifyVars, posted>>

\* ------------------------------------ enhanceAccountsWithAddressMapping

\* Answers of GET /customers/{id}: "ok" with the customer; "http" with an
\* error status; "timeout" (code ECONNABORTED); "network" (any other fault).
LookupsIn(requests) == Len(SelectSeq(requests, LAMBDA c : c.api = "customers"))
CustomerLookups == LookupsIn(calls)

\* The lookups answered so far: all but the one awaited.
AnsweredLookups == CustomerLookups - (IF epc = "lookup" THEN 1 ELSE 0)

\* The answers the pending lookup of a client, its n-th, may get.
CustomerResponses(customer, n) ==
    IF "outage" \in faulty
    THEN IF n < args.outageAt
         THEN {[kind |-> "ok", code |-> 200, data |-> customer]}
         ELSE IF (n - 1) % 2 = 0
         THEN {[kind |-> "timeout", code |-> 0, data |-> NoCustomer]}
         ELSE {[kind |-> "http", code |-> 429, data |-> NoCustomer]}
    ELSE IF "identity" \notin faulty
    THEN {[kind |-> "ok", code |-> 200, data |-> customer]}
    ELSE {[kind |-> "ok", code |-> 200, data |-> customer]}
         \cup {[kind |-> "http", code |-> c, data |-> NoCustomer] :
                 c \in {404, 403, 429, 500}}
         \cup {[kind |-> k, code |-> 0, data |-> NoCustomer] :
                 k \in {"timeout", "network"}}

\* getCustomer: the customer, null (NoCustomer) for 404 and 403, an
\* exception for every other error.
getCustomer(resp) ==
    CASE resp.kind = "ok" -> [raised |-> FALSE, customer |-> resp.data]
      [] resp.kind = "http" /\ resp.code = 404 ->
            [raised |-> FALSE, customer |-> NoCustomer]
      [] resp.kind = "http" /\ resp.code = 403 ->
            [raised |-> FALSE, customer |-> NoCustomer]
      [] OTHER -> [raised |-> TRUE, customer |-> NoCustomer]

\* formatCustomerAddress: street and street2 joined, else all parts joined;
\* <<>> is undefined.
formatCustomerAddress(customer) ==
    LET addr == customer.address
        streetAddress == addr.street \o addr.street2
        fullAddress == addr.street \o addr.street2 \o addr.city \o addr.state
                       \o addr.postalCode
    IN IF streetAddress # <<>> THEN streetAddress ELSE fullAddress

\* The copy of one record after the enhancement block of lines 358-393.
EnhancedResetsBalance(account, customer, m) ==
    IF ~customer.hasAttributes THEN account
    ELSE [account EXCEPT
            !.customerName = customer.first \o customer.last,
            !.customerEmail = customer.email,
            !.balance = 0]
EnhancedLosesActivity(account, customer, m) ==
    IF ~customer.hasAttributes THEN account
    ELSE [account EXCEPT
            !.customerName = customer.first \o customer.last,
            !.customerEmail = customer.email,
            !.hasActivity = FALSE,
            !.daysSinceLastActivity = 0]
Enhanced(account, customer, m) ==
    IF ~customer.hasAttributes THEN account
    ELSE LET customerAddress == formatCustomerAddress(customer)
         IN [account EXCEPT
                !.customerName = customer.first \o customer.last,
                !.customerEmail = customer.email,
                !.customerAddress = customerAddress,
                !.companyName = getCompanyName(m, customerAddress),
                !.companyId = getCompanyId(m, customerAddress)]

\* if (enhancementEnabled && customerApiFailures < MAX_FAILURES)
LookupAlways(enabled, failures) == TRUE
LookupAllowed(enabled, failures) == enabled /\ failures < MAX_FAILURES

\* ----------------------------------------------------- getDormantAccounts

\* if (account.status === 'Closed' || account.status === 'Frozen') continue
SkipsOnlyClosed(account) == account.status = "Closed"
IsSkippedStatus(account) == account.status = "Closed" \/ account.status = "Frozen"

\* closureNeeded.push(account): lines 491-493 for an account with activity,
\* lines 500-502 for one without.
FlagsClosureStrict(account) ==
    IF account.hasActivity
    THEN account.daysSinceLastActivity > CLOSURE_DAYS
    ELSE account.daysSinceCreation >= NO_ACTIVITY_CLOSURE_DAYS
FlagsClosureLate(account) ==
    IF account.hasActivity
    THEN account.daysSinceLastActivity >= CLOSURE_DAYS
    ELSE account.daysSinceCreation > NO_ACTIVITY_CLOSURE_DAYS
FlagsClosure(account) ==
    IF account.hasActivity
    THEN account.daysSinceLastActivity >= CLOSURE_DAYS
    ELSE account.daysSinceCreation >= NO_ACTIVITY_CLOSURE_DAYS

\* communicationNeeded.push(account): the else-if of lines 494-496, reached
\* only with activity and below the closure threshold.
FlagsCommunicationNoElse(account) ==
    /\ account.hasActivity
    /\ account.daysSinceLastActivity >= COMMUNICATION_DAYS
FlagsCommunication(account) ==
    /\ account.hasActivity
    /\ ~(account.daysSinceLastActivity >= CLOSURE_DAYS)
    /\ account.daysSinceLastActivity >= COMMUNICATION_DAYS

\* The for loop of lines 482-507 over the accounts in order.
Classify(accounts) ==
    [communicationNeeded |->
        SelectSeq(accounts, LAMBDA account :
            ~IsSkippedStatus(account) /\ FlagsCommunication(account)),
     closureNeeded |->
        SelectSeq(accounts, LAMBDA account :
            ~IsSkippedStatus(account) /\ FlagsClosure(account))]

\* Where checkDormantAccounts continues once getDormantAccounts has
\* returned the two arrays.
AfterDormantAlwaysAlerts(comm, clos) ==
    IF entry # "checkDormantAccounts" THEN "done" ELSE "communicationAlert"
AfterDormant(comm, clos) ==
    IF entry # "checkDormantAccounts" THEN "done"
    ELSE IF Len(comm) > 0 THEN "communicationAlert"
    ELSE IF Len(clos) > 0 THEN "closureAlert"
    ELSE "done"

Completed(comm, clos) ==
    <<[success |-> TRUE, message |-> "completed",
       communicationNeeded |-> Len(comm), closureNeeded |-> Len(clos)]>>

\* The requests in flight once checkDormantAccounts has gone on to the
\* await at `next`: sendDormancyAlert has posted the alert of that step.
AlertRequested(requests, next) ==
    CASE next = "communicationAlert" ->
            Append(requests, [api |-> "slack:communication_needed", arg |-> 0])
      [] next = "closureAlert" ->
            Append(requests, [api |-> "slack:closure_needed", arg |-> 0])
      [] OTHER -> requests

\* The rest of getDormantAccounts once Promise.race has settled with
\* `analysed`, and its caller up to the next await: the post of the first
\* alert due, or the return.
Settle(analysed) ==
    LET c == Classify(analysed)
    IN /\ calls' = AlertRequested(calls,
                        AfterDormant(c.communicationNeeded, c.closureNeeded))
       /\ communicationNeeded' = c.communicationNeeded
       /\ closureNeeded' = c.closureNeeded
       /\ status' = [status EXCEPT !["getDormantAccounts"] = "returned",
                        !["checkDormantAccounts"] =
                            IF entry = "checkDormantAccounts"
                               /\ AfterDormant(c.communicationNeeded, c.closureNeeded) = "done"
                            THEN "returned" ELSE @]
       /\ pc' = AfterDormant(c.communicationNeeded, c.closureNeeded)
       /\ result' = IF entry = "checkDormantAccounts"
                       /\ AfterDormant(c.communicationNeeded, c.closureNeeded) = "done"
                    THEN Completed(c.communicationNeeded, c.closureNeeded)
                    ELSE result

\* GET /customers/{id}, as logged in calls.
CustomerRequest(account) == [api |-> "customers", arg |-> account.customerId]

\* The for loop of enhanceAccountsWithAddressMapping(accounts) from
\* iteration j on, up to its next await.  Once a lookup is not allowed none
\* is again, so the loop pushes the remaining accounts as they are and the
\* function returns; otherwise it awaits the 100 ms throttle
\* (i > 0 && i % 50 === 0, i = j - 1) or, the lookup being requested, its
\* answer.
LoopEnds(accounts, j, enabled, failures) ==
    j > Len(accounts) \/ ~LookupAllowed(enabled, failures)

Throttled(j) == j > 1 /\ (j - 1) % THROTTLE_EVERY = 0

LoopNext(accounts, j, enhanced, enabled, failures) ==
    IF LoopEnds(accounts, j, enabled, failures)
    THEN [epc |-> "done", jdx |-> Len(accounts) + 1,
          enhancedAccounts |-> enhanced \o SubSeq(accounts, j, Len(accounts)),
          requests |-> <<>>]
    ELSE IF Throttled(j)
    THEN [epc |-> "throttle", jdx |-> j, enhancedAccounts |-> enhanced,
          requests |-> <<>>]
    ELSE [epc |-> "lookup", jdx |-> j, enhancedAccounts |-> enhanced,
          requests |-> <<CustomerRequest(accounts[j])>>]

\* The rest of an iteration once the lookup of `account` is answered: the
\* enhancement of the copy, or the catch block's count and breaker.
Answered(account, resp, m, enabled, failures) ==
    LET got == getCustomer(resp)
    IN [record |-> IF got.raised THEN account
                   ELSE Enhanced(account, got.customer, m),
        customerApiFailures |-> IF got.raised THEN failures + 1 ELSE failures,
        enhancementEnabled |-> IF got.raised THEN failures + 1 < MAX_FAILURES
                               ELSE enabled]

\* The loop of the request being served, on its input accountActivities.
LoopAt(n, requests) ==
    /\ enhancedAccounts' = n.enhancedAccounts
    /\ jdx' = n.jdx
    /\ epc' = n.epc
    /\ calls' = requests \o n.requests

LoopFrom(j, enhanced, enabled, failures, requests) ==
    LoopAt(LoopNext(accountActivities, j, enhanced, enabled, failures), requests)

\* getDormantAccounts calls enhanceAccountsWithAddressMapping(coreAccounts),
\* which runs to its first await (the fetch of the mappings, or the first
\* lookup when they are loaded), and awaits the race with the timer.
enhanceStartKeepsCount ==
    /\ pc = "phase2"
    /\ pc' = "race"
    /\ IF Len(accountActivities) = 0
       THEN /\ epc' = "done"
            /\ enhancedAccounts' = accountActivities
            /\ jdx' = 1
            /\ status' = [status EXCEPT
                    !["enhanceAccountsWithAddressMapping"] = "returned"]
            /\ UNCHANGED <<calls, mappingFetches>>
       ELSE IF ~mappings.loaded
       THEN /\ epc' = "load"
            /\ calls' = Append(calls, [api |-> "mappings", arg |-> 0])
            /\ mappingFetches' = mappingFetches + 1
            /\ enhancedAccounts' = <<>>
            /\ jdx' = 1
            /\ status' = [status EXCEPT
                    !["enhanceAccountsWithAddressMapping"] = "running"]
       ELSE /\ LoopFrom(1, <<>>, enhancementEnabled, customerApiFailures, calls)
            /\ status' = [status EXCEPT
                    !["enhanceAccountsWithAddressMapping"] =
                        IF LoopEnds(accountActivities, 1, enhancementEnabled, customerApiFailures)
                        THEN "returned" ELSE "running"]
            /\ UNCHANGED mappingFetches
    /\ UNCHANGED <<inputVars, invocation, abandoned, response, fetchVars, resolveVars, mappings,
                   customerApiFailures, enhancementEnabled,
                   custResponse, classifyVars, alertVars>>
enhanceStart ==
    /\ pc = "phase2"
    /\ pc' = "race"
    /\ IF Len(accountActivities) = 0
       THEN /\ epc' = "done"
            /\ enhancedAccounts' = accountActivities
            /\ jdx' = 1
            /\ status' = [status EXCEPT
                    !["enhanceAccountsWithAddressMapping"] = "returned"]
            /\ UNCHANGED <<calls, mappingFetches>>
       ELSE IF ~mappings.loaded
       THEN /\ epc' = "load"
            /\ calls' = Append(calls, [api |-> "mappings", arg |-> 0])
            /\ mappingFetches' = mappingFetches + 1
            /\ enhancedAccounts' = <<>>
            /\ jdx' = 1
            /\ status' = [status EXCEPT
                    !["enhanceAccountsWithAddressMapping"] = "running"]
       ELSE /\ LoopFrom(1, <<>>, TRUE, 0, calls)
            /\ status' = [status EXCEPT
                    !["enhanceAccountsWithAddressMapping"] =
                        IF LoopEnds(accountActivities, 1, TRUE, 0) THEN "returned" ELSE "running"]
            /\ UNCHANGED mappingFetches
    /\ customerApiFailures' = 0
    /\ enhancementEnabled' = TRUE
    /\ UNCHANGED <<inputVars, invocation, abandoned, response, fetchVars, resolveVars, mappings,
                   custResponse, classifyVars, alertVars>>

\* The answer to the fetch awaited in loadMappings arrives, and the loop
\* runs up to its first await.
loadMappings ==
    /\ epc = "load"
    /\ \E fetched \in Outcomes("mappings") : mappings' = loadMappingsResult(fetched)
    /\ LoopFrom(1, <<>>, enhancementEnabled, customerApiFailures, calls)
    /\ status' = [status EXCEPT
            !["enhanceAccountsWithAddressMapping"] =
                IF LoopEnds(accountActivities, 1, enhancementEnabled, customerApiFailures)
                THEN "returned" ELSE @]
    /\ UNCHANGED <<inputVars, processVars, response, pc, fetchVars, resolveVars,
                   customerApiFailures, enhancementEnabled,
                   custResponse, classifyVars, alertVars>>

\* The 100 ms timer awaited before every 50th lookup fires: the lookup is
\* requested.
throttle ==
    /\ epc = "throttle"
    /\ calls' = Append(calls, CustomerRequest(accountActivities[jdx]))
    /\ epc' = "lookup"
    /\ UNCHANGED <<inputVars, processVars, response, pc, status, fetchVars, resolveVars,
                   mappings, jdx, enhancedAccounts, customerApiFailures,
                   enhancementEnabled, custResponse, classifyVars, alertVars>>

\* The input array after iteration i has built `account`:
\* `const account = { ...accounts[i] }` makes every write of the iteration
\* go to a copy, so accounts[i] is as before.
InputWrittenInPlace(accounts, i, account) == [accounts EXCEPT ![i] = account]
InputAfterIteration(accounts, i, account) == accounts

\* The rest of an iteration of the request being served, `a` being what the
\* answer `resp` to its lookup made of the account, and the loop up to its
\* next await or to the return of enhanceAccountsWithAddressMapping.
Iterated(resp, a) ==
    /\ custResponse' = resp
    /\ customerApiFailures' = a.customerApiFailures
    /\ enhancementEnabled' = a.enhancementEnabled
    /\ LoopFrom(jdx + 1, Append(enhancedAccounts, a.record),
                a.enhancementEnabled, a.customerApiFailures, calls)
    /\ accountActivities' = InputAfterIteration(accountActivities, jdx, a.record)
    /\ status' = [status EXCEPT
            !["enhanceAccountsWithAddressMapping"] =
                IF LoopEnds(accountActivities, jdx + 1, a.enhancementEnabled,
                            a.customerApiFailures)
                THEN "returned" ELSE @]

\* The answer to the lookup awaited at `await this.getCustomer(...)`
\* arrives.
enhanceAccount ==
    /\ epc = "lookup"
    /\ \E resp \in CustomerResponses(
                    LedgerAccount(accountActivities[jdx].accountId).customer,
                    CustomerLookups) :
            Iterated(resp, Answered(accountActivities[jdx], resp, mappings,
                                    enhancementEnabled, customerApiFailures))
    /\ UNCHANGED <<inputVars, processVars, response, pc, fetchVars, idx,
                   txResponse, skipped, mappings, classifyVars, alertVars>>

\* The enhancement a request leaves running when it is answered after the
\* timeout, as it is when the next request arrives.
LeftRunning ==
    [invocation |-> invocation, calls |-> calls, mappings |-> mappings,
     epc |-> epc, jdx |-> jdx, accountActivities |-> accountActivities,
     enhancedAccounts |-> enhancedAccounts,
     customerApiFailures |-> customerApiFailures,
     enhancementEnabled |-> enhancementEnabled]

\* An enhancement e whose loop has run on to n.
Advanced(e, n) ==
    [e EXCEPT !.epc = n.epc, !.jdx = n.jdx,
              !.enhancedAccounts = n.enhancedAccounts,
              !.calls = @ \o n.requests]

\* An enhancement e after the rest of its iteration, `a` being what the
\* answer to its lookup made of the account.
IteratedIn(e, a) ==
    Advanced([e EXCEPT !.customerApiFailures = a.customerApiFailures,
                       !.enhancementEnabled = a.enhancementEnabled,
                       !.accountActivities =
                            InputAfterIteration(@, e.jdx, a.record)],
             LoopNext(e.accountActivities, e.jdx + 1,
                      Append(e.enhancedAccounts, a.record),
                      a.enhancementEnabled, a.customerApiFailures))

\* The continuation of an enhancement e at the await it is suspended at,
\* with the answer it gets there (`fetched` at the load of the mappings,
\* `resp` at a lookup): the steps loadMappings, throttle and enhanceAccount,
\* on the state of e's own client.
Resumed(e, fetched, resp) ==
    CASE e.epc = "load" ->
            Advanced([e EXCEPT !.mappings = loadMappingsResult(fetched)],
                     LoopNext(e.accountActivities, 1, <<>>, e.enhancementEnabled,
                              e.customerApiFailures))
      [] e.epc = "throttle" ->
            [e EXCEPT !.epc = "lookup",
                      !.calls = Append(@, CustomerRequest(e.accountActivities[e.jdx]))]
      [] e.epc = "lookup" ->
            IteratedIn(e, Answered(e.accountActivities[e.jdx], resp, e.mappings,
                                   e.enhancementEnabled, e.customerApiFailures))
      [] OTHER -> e

\* The answers the await of e may get.
AwaitedCustomerResponses(e) ==
    IF e.epc = "lookup"
    THEN CustomerResponses(
            LedgerAccount(e.accountActivities[e.jdx].accountId).customer,
            LookupsIn(e.calls))
    ELSE {[kind |-> "none", code |-> 0, data |-> NoCustomer]}

\* An answer or timer an abandoned enhancement awaits arrives: it runs on,
\* up to its next await or to its return, whose result nobody reads.
abandonedEnhancement ==
    /\ \E k \in DOMAIN abandoned :
        /\ abandoned[k].epc \in {"load", "throttle", "lookup"}
        /\ \E fetched \in Outcomes("mappings"),
              resp \in AwaitedCustomerResponses(abandoned[k]) :
            abandoned' = [abandoned EXCEPT ![k] = Resumed(@, fetched, resp)]
    /\ UNCHANGED <<inputVars, invocation, mappingFetches, response, pc, status, calls,
                   fetchVars, resolveVars, enhanceVars, classifyVars, alertVars>>

\* catch of the race: allAccounts = coreAccounts.
TimeoutFallbackKeepsPartial ==
    enhancedAccounts
        \o SubSeq(accountActivities, Len(enhancedAccounts) + 1,
                  Len(accountActivities))
TimeoutFallback == accountActivities

\* Promise.race settles with the enhancement: allAccounts = its result.
raceEnhanced ==
    /\ pc = "race"
    /\ epc = "done"
    /\ timedOut' = FALSE
    /\ Settle(enhancedAccounts)
    /\ UNCHANGED <<inputVars, processVars, response, fetchVars, resolveVars, enhanceVars, posted>>

\* The 5-minute timer rejects first: allAccounts = coreAccounts.  The timer
\* depends on the time elapsed only, and the answers' delays are not part of
\* the state: it may fire at any await of the enhancement (epc is "load",
\* "lookup" or "throttle"), whatever the answers are.  The enhancement is
\* not cancelled and keeps running.
raceTimeout ==
    /\ pc = "race"
    /\ epc # "done"
    /\ timedOut' = TRUE
    /\ Settle(TimeoutFallback)
    /\ UNCHANGED <<inputVars, processVars, response, fetchVars, resolveVars, enhanceVars, posted>>

\* ----------------------------------------------------------- route guards

\* The entry points a route handler serves: /api/check-dormant,
\* /api/summary and /api/dormant-accounts.  The other entry points are
\* called directly.
Routes == {"checkDormantAccounts", "getAccountSummary", "getDormantAccounts"}

Env == {"UNIT_API_TOKEN", "UNIT_API_BASE_URL", "SLACK_WEBHOOK_URL"}

\* The handlers that compare the authorization header with CRON_SECRET:
\* `if (cronSecret && authHeader !== \`Bearer ${cronSecret}\`)`.  The handler
\* of /api/dormant-accounts reads neither.
ChecksSecret(e) == e \in {"checkDormantAccounts", "getAccountSummary"}

\* The environment variables a handler validates before it constructs its
\* services.
RequiredEnvTokenOnly(e) == IF e \in Routes THEN {"UNIT_API_TOKEN"} ELSE {}
RequiredEnv(e) ==
    CASE e = "getDormantAccounts" -> {"UNIT_API_TOKEN", "UNIT_API_BASE_URL"}
      [] e \in {"checkDormantAccounts", "getAccountSummary"} ->
            {"UNIT_API_TOKEN", "UNIT_API_BASE_URL", "SLACK_WEBHOOK_URL"}
      [] OTHER -> {}

\* The status of the answer a handler gives before it calls its service:
\* 401 from the secret check, 500 from the catch block for the Error the
\* validation throws, 0 when the handler goes on.  a.auth is "open"
\* (CRON_SECRET unset), "granted" (set, and the header carries it) or
\* "denied" (set, header absent or different); a.missing is the set of
\* unset environment variables.
RouteGuard(e, a) ==
    IF ChecksSecret(e) /\ a.auth = "denied" THEN 401
    ELSE IF RequiredEnv(e) \cap a.missing # {} THEN 500
    ELSE 0

\* The handler answers without calling its service.
routeReject ==
    /\ pc = "start"
    /\ RouteGuard(entry, args) # 0
    /\ response' = RouteGuard(entry, args)
    /\ pc' = "done"
    /\ UNCHANGED <<inputVars, processVars, status, calls, fetchVars, resolveVars,
                   enhanceVars, classifyVars, alertVars>>

\* --------------------------------------------------- checkDormantAccounts

\* getDay(today) >= 1 && getDay(today) <= 5; 0 is Sunday, 6 is Saturday.
isWeekdayOrSaturday(today) == today >= 1 /\ today <= 6
isWeekday(today) == today >= 1 /\ today <= 5

\* alertReason of the closure alert (lines 72-74).
ClosureReasonAlwaysBoth(accounts) ==
    <<"12", "months", "of", "inactivity", "or", "120", "days", "with", "no",
      "activity", "-", "closure", "required">>
ClosureReason(accounts) ==
    IF \E k \in DOMAIN accounts : accounts[k].hasActivity
    THEN <<"12", "months", "of", "inactivity", "or", "120", "days", "with", "no",
           "activity", "-", "closure", "required">>
    ELSE <<"120", "days", "with", "no", "activity", "-", "closure", "required">>

CommunicationReason ==
    <<"9", "months", "of", "inactivity", "-", "communication", "attempt",
      "required">>

Skipped ==
    <<[success |-> TRUE, message |-> "skipped",
       communicationNeeded |-> 0, closureNeeded |-> 0]>>

FailedAsSuccess ==
    <<[success |-> TRUE, message |-> "failed",
       communicationNeeded |-> 0, closureNeeded |-> 0]>>
FailedKeepsCounts ==
    <<[success |-> FALSE, message |-> "failed",
       communicationNeeded |-> Len(communicationNeeded),
       closureNeeded |-> Len(closureNeeded)]>>
Failed ==
    <<[success |-> FALSE, message |-> "failed",
       communicationNeeded |-> 0, closureNeeded |-> 0]>>

\* The call of the entry point, up to its first await: the request of the
\* first page in getAccounts.  An automated checkDormantAccounts on a
\* weekend returns at once.
invoke ==
    /\ pc = "start"
    /\ entry \notin {"getCompanyName", "sendStatusMessage"}
    /\ RouteGuard(entry, args) = 0
    /\ IF entry = "checkDormantAccounts" /\ ~args.isManual /\ ~isWeekday(args.today)
       THEN /\ pc' = "done"
            /\ result' = Skipped
            /\ status' = [status EXCEPT !["checkDormantAccounts"] = "returned"]
            /\ UNCHANGED calls
       ELSE /\ pc' = "getAccounts"
            /\ status' = [f \in Functions |->
                    IF f \in Range(CallChain(entry)) THEN "running" ELSE status[f]]
            /\ calls' = Append(calls, PageRequest(currentOffset))
            /\ UNCHANGED result
    /\ UNCHANGED <<inputVars, processVars, response, fetchVars, resolveVars, enhanceVars,
                   classifyVars, posted>>

\* The answer to the post of the communication alert (awaited at
\* dormancyService.ts:65) arrives: it is accepted, and the run goes on to
\* post the closure alert or returns; or it fails, sendDormancyAlert
\* rethrows and the catch block posts the error alert.
communicationAlert ==
    /\ pc = "communicationAlert"
    /\ \E ok \in Outcomes("slack") :
        IF ok
        THEN /\ posted' = Append(posted,
                    [type |-> "communication_needed",
                     accounts |-> communicationNeeded,
                     alertReason |-> CommunicationReason])
             /\ IF Len(closureNeeded) > 0
                THEN /\ pc' = "closureAlert"
                     /\ calls' = AlertRequested(calls, "closureAlert")
                     /\ UNCHANGED <<status, result>>
                ELSE /\ pc' = "done"
                     /\ result' = Completed(communicationNeeded, closureNeeded)
                     /\ status' = [status EXCEPT
                            !["checkDormantAccounts"] = "returned"]
                     /\ UNCHANGED calls
        ELSE /\ pc' = "catch"
             /\ calls' = ErrorAlertRequested(calls)
             /\ UNCHANGED <<posted, status, result>>
    /\ UNCHANGED <<inputVars, processVars, response, fetchVars, resolveVars, enhanceVars, classifyVars>>

\* The answer to the post of the closure alert (awaited at line 76)
\* arrives: it is accepted and the run returns its counts; or it fails and
\* the catch block posts the error alert.
closureAlert ==
    /\ pc = "closureAlert"
    /\ \E ok \in Outcomes("slack") :
        IF ok
        THEN /\ posted' = Append(posted,
                    [type |-> "closure_needed",
                     accounts |-> closureNeeded,
                     alertReason |-> ClosureReason(closureNeeded)])
             /\ pc' = "done"
             /\ result' = Completed(communicationNeeded, closureNeeded)
             /\ status' = [status EXCEPT !["checkDormantAccounts"] = "returned"]
             /\ UNCHANGED calls
        ELSE /\ pc' = "catch"
             /\ calls' = ErrorAlertRequested(calls)
             /\ UNCHANGED <<posted, status, result>>
    /\ UNCHANGED <<inputVars, processVars, response, fetchVars, resolveVars, enhanceVars, classifyVars>>

\* The answer to the post of the error alert (awaited in logAndNotifyError,
\* called at line 95) arrives: a failure of that post is swallowed, and the
\* run returns success=false.
catchError ==
    /\ pc = "catch"
    /\ \E ok \in Outcomes("slack") :
        posted' = IF ok
                  THEN Append(posted, [type |-> "error", accounts |-> <<>>,
                                       alertReason |-> <<"Dormancy", "check", "failed">>])
                  ELSE posted
    /\ pc' = "done"
    /\ result' = Failed
    /\ status' = [status EXCEPT !["checkDormantAccounts"] = "returned"]
    /\ UNCHANGED <<inputVars, processVars, response, calls, fetchVars, resolveVars, enhanceVars, classifyVars>>

\* SlackService.sendStatusMessage(message), called directly: the post of
\* the status message, up to its await.
sendStatusMessage ==
    /\ pc = "start"
    /\ entry = "sendStatusMessage"
    /\ calls' = Append(calls, [api |-> "slack:status", arg |-> 0])
    /\ status' = [status EXCEPT !["sendStatusMessage"] = "running"]
    /\ pc' = "statusMessage"
    /\ UNCHANGED <<inputVars, processVars, response, fetchVars, resolveVars, enhanceVars,
                   classifyVars, alertVars>>

\* The answer to that post arrives: the call returns, or the failure is
\* logged and rethrown.
statusMessage ==
    /\ pc = "statusMessage"
    /\ \E ok \in Outcomes("slack") :
        IF ok
        THEN /\ posted' = Append(posted, [type |-> "status", accounts |-> <<>>,
                                          alertReason |-> <<>>])
             /\ status' = [status EXCEPT !["sendStatusMessage"] = "returned"]
        ELSE /\ status' = [status EXCEPT !["sendStatusMessage"] = "raised"]
             /\ UNCHANGED posted
    /\ pc' = "done"
    /\ UNCHANGED <<inputVars, processVars, response, calls, fetchVars, resolveVars,
                   enhanceVars, classifyVars, result>>

\* ------------------------------------------------------ getAccountSummary

\* allAccounts.reduce(...): the number of records of each status; a status
\* without records has no key, read as 0.
accountsByStatusOfEligible(records) ==
    [s \in Statuses |->
        IF s \in {"Closed", "Frozen"} THEN 0
        ELSE Cardinality({k \in DOMAIN records : records[k].status = s})]
accountsByStatus(records) ==
    [s \in Statuses |->
        Cardinality({k \in DOMAIN records : records[k].status = s})]

\* The filter predicate of communicationSoon (lines 125-133).
IsCommunicationSoonStrict(account) ==
    IF account.status = "Closed" \/ account.status = "Frozen" THEN FALSE
    ELSE /\ account.hasActivity
         /\ account.daysSinceLastActivity > COMMUNICATION_SOON_DAYS
         /\ account.daysSinceLastActivity < COMMUNICATION_DAYS
IsCommunicationSoon(account) ==
    IF account.status = "Closed" \/ account.status = "Frozen" THEN FALSE
    ELSE /\ account.hasActivity
         /\ account.daysSinceLastActivity >= COMMUNICATION_SOON_DAYS
         /\ account.daysSinceLastActivity < COMMUNICATION_DAYS

\* The filter predicate of closureSoon (lines 135-147).
IsClosureSoonInclusive(account) ==
    IF account.status = "Closed" \/ account.status = "Frozen" THEN FALSE
    ELSE IF account.hasActivity
         THEN /\ account.daysSinceLastActivity >= CLOSURE_SOON_DAYS
              /\ account.daysSinceLastActivity <= CLOSURE_DAYS
         ELSE /\ account.daysSinceCreation >= NO_ACTIVITY_SOON_DAYS
              /\ account.daysSinceCreation <= NO_ACTIVITY_CLOSURE_DAYS
IsClosureSoon(account) ==
    IF account.status = "Closed" \/ account.status = "Frozen" THEN FALSE
    ELSE IF account.hasActivity
         THEN /\ account.daysSinceLastActivity >= CLOSURE_SOON_DAYS
              /\ account.daysSinceLastActivity < CLOSURE_DAYS
         ELSE /\ account.daysSinceCreation >= NO_ACTIVITY_SOON_DAYS
              /\ account.daysSinceCreation < NO_ACTIVITY_CLOSURE_DAYS

\* The object getAccountSummary returns.
Summary(records) ==
    <<[totalAccounts |-> Len(records),
       accountsByStatus |-> accountsByStatus(records),
       communicationSoon |-> SelectSeq(records, IsCommunicationSoon),
       closureSoon |-> SelectSeq(records, IsClosureSoon)]>>

\* getAllAccountsWithActivity has returned: the tally, the two filters and
\* the return.
getAccountSummary ==
    /\ pc = "summary"
    /\ result' = Summary(accountActivities)
    /\ status' = [status EXCEPT !["getAccountSummary"] = "returned"]
    /\ pc' = "done"
    /\ UNCHANGED <<inputVars, processVars, response, calls, fetchVars, resolveVars, enhanceVars,
                   classifyVars, posted>>

\* ------------------------------------------------------- route handlers

\* The next request to /api/dormant-accounts arrives at the process, the one
\* before being answered: the handler constructs a new UnitApiClient, whose
\* AddressMappingService starts with mappings = null, and runs the
\* operation anew.  An enhancement the answered request left running after
\* its timeout runs on.  customerApiFailures and enhancementEnabled are
\* locals of enhanceAccountsWithAddressMapping: its next call initialises
\* them.
invokeAgain ==
    /\ pc = "done"
    /\ entry = "getDormantAccounts"
    /\ invocation < args.requests
    /\ invocation < MaxInvocations
    /\ invocation' = invocation + 1
    /\ abandoned' = IF epc \in {"load", "throttle", "lookup"}
                    THEN Append(abandoned, LeftRunning)
                    ELSE abandoned
    /\ pc' = "start"
    /\ status' = [f \in Functions |-> "idle"]
    /\ calls' = <<>>
    /\ allAccounts' = <<>>
    /\ currentOffset' = 0
    /\ hasMoreData' = TRUE
    /\ capWarned' = FALSE
    /\ idx' = 1
    /\ accountActivities' = <<>>
    /\ txResponse' = NoResponse
    /\ skipped' = {}
    /\ mappings' = NullMappings
    /\ epc' = "idle"
    /\ jdx' = 1
    /\ enhancedAccounts' = <<>>
    /\ custResponse' = [kind |-> "none", code |-> 0, data |-> NoCustomer]
    /\ timedOut' = FALSE
    /\ communicationNeeded' = <<>>
    /\ closureNeeded' = <<>>
    /\ posted' = <<>>
    /\ result' = <<>>
    /\ response' = 0
    /\ UNCHANGED <<inputVars, mappingFetches, customerApiFailures,
                   enhancementEnabled>>

\* ------------------------------------------------------ the specification

SeqsUpTo(S, n) == UNION {[1..k -> S] : k \in 0..n}

\* (isManual, today) of the checkDormantAccounts runs.
CheckRuns ==
    {[isManual |-> FALSE, today |-> 0], [isManual |-> FALSE, today |-> 6],
     [isManual |-> FALSE, today |-> 1], [isManual |-> TRUE, today |-> 6]}

PipelineRuns ==
    {[entry |-> "checkDormantAccounts", isManual |-> r.isManual, today |-> r.today] :
        r \in CheckRuns}
    \cup {[entry |-> "getDormantAccounts", isManual |-> FALSE, today |-> 1]}

\* The runs with upstream faults: a manual check and a direct
\* getDormantAccounts call.
FaultRuns == {r \in PipelineRuns : r.isManual \/ r.entry = "getDormantAccounts"}

\* The ledgers over a set of accounts: every ledger of at most two of them,
\* and the ledgers of up to MaxAccounts of the `core` ones.
Ledgers(accounts, core) ==
    SeqsUpTo(accounts, 2) \cup SeqsUpTo(core, MaxAccounts)

\* The runs of the pipeline: which services may fail, on which ledgers.
Families ==
    {[faulty |-> {}, ledgers |-> Ledgers(ThresholdAccounts, ThresholdCore),
      runs |-> PipelineRuns],
     [faulty |-> {"ledger", "slack"},
      ledgers |-> SeqsUpTo(LedgerFaultAccounts, MaxAccounts), runs |-> FaultRuns],
     [faulty |-> {"mappings", "identity"},
      ledgers |-> SeqsUpTo(EnrichmentFaultAccounts, MaxAccounts),
      runs |-> FaultRuns]}

\* The setting of one invocation: the entry point and its arguments, the
\* ledger, the services that may fail.  The clock reads midnight, no
\* CRON_SECRET is set, every environment variable is, and one request
\* arrives.
Run(e, limit, isManual, today, l, f) ==
    [entry |-> e, limit |-> limit, isManual |-> isManual, today |-> today,
     size |-> Len(l), ledger |-> l, faulty |-> f, outageAt |-> 0, now |-> 0,
     auth |-> "open", missing |-> {}, address |-> <<>>,
     mappings |-> NullMappings, dataset |-> MappingDataset, requests |-> 1]

\* Manual and automated checks on every day of the week.
DayRuns ==
    {Run("checkDormantAccounts", DEFAULT_LIMIT, m, d, l, {}) :
        m \in BOOLEAN, d \in 0..6, l \in SeqsUpTo({DefaultAccount}, 1)}

\* Requests to the three routes with and without CRON_SECRET, with and
\* without the matching header, under every set of unset variables.
RouteRuns ==
    {[Run(e, DEFAULT_LIMIT, TRUE, 1, <<DefaultAccount>>, {})
        EXCEPT !.auth = a, !.missing = m] :
        e \in Routes, a \in {"open", "granted", "denied"}, m \in SUBSET Env}

\* Analyses at two times of day of accounts created, or last used, hours
\* before or after the analysis.
ClockRuns ==
    {[Run("getAllAccountsWithActivity", DEFAULT_LIMIT, FALSE, 1, <<acc>>, {})
        EXCEPT !.now = n] :
        n \in ClockTimes, acc \in ClockAccounts}

\* Direct lookups of an address in a loaded or unloaded service.
LookupRuns ==
    {[Run("getCompanyName", DEFAULT_LIMIT, FALSE, 1, <<>>, {})
        EXCEPT !.address = a, !.mappings = m] :
        a \in LookupAddresses, m \in LookupMappings}

\* Enrichments from a dataset whose matching entry has a falsy field.
DatasetRuns ==
    {[Run("getDormantAccounts", DEFAULT_LIMIT, FALSE, 1, <<DefaultAccount>>, {})
        EXCEPT !.dataset = d] :
        d \in FalsyDatasets}

\* Requests to /api/dormant-accounts that arrive one after the other at a
\* process whose upstreams all answer.
RepeatedRuns ==
    {[Run("getDormantAccounts", DEFAULT_LIMIT, FALSE, 1, l, {})
        EXCEPT !.requests = MaxInvocations] :
        l \in SeqsUpTo({DefaultAccount}, MaxAccounts)}

\* Requests during an outage of the identity API that begins at a client's
\* n-th lookup.
OutageRuns ==
    {[Run("getDormantAccounts", DEFAULT_LIMIT, FALSE, 1, BreakerLedger,
          {"outage"}) EXCEPT !.outageAt = n] :
        n \in 1..MaxOutageStart}

\* A request, and a second one, to a process whose identity API answers the
\* first lookup of a client and none after.
RepeatedOutageRuns ==
    {[Run("getDormantAccounts", DEFAULT_LIMIT, FALSE, 1, BreakerLedger,
          {"outage"}) EXCEPT !.outageAt = 2, !.requests = 2]}

\* Direct calls of sendStatusMessage, with Slack accepting or refusing.
StatusRuns ==
    {Run("sendStatusMessage", DEFAULT_LIMIT, FALSE, 1, <<>>, f) :
        f \in {{}, {"slack"}}}

Invocations ==
    {[Run("getAccounts", f.limit, FALSE, 1, <<>>, {"ledger"})
        EXCEPT !.size = f.size] :
        f \in DirectFetches}
    \cup UNION {
          {Run(r.entry, DEFAULT_LIMIT, r.isManual, r.today, l, fam.faulty) :
             r \in fam.runs, l \in fam.ledgers} :
          fam \in Families}
    \cup {Run("getAccountSummary", DEFAULT_LIMIT, FALSE, 1, l, {}) :
            l \in Ledgers(SummaryAccounts, SummaryCore)}
    \cup OutageRuns
    \cup RepeatedOutageRuns
    \cup RepeatedRuns
    \cup {Run("getDormantAccounts", DEFAULT_LIMIT, FALSE, 1, ThrottleLedger, {})}
    \cup DayRuns
    \cup RouteRuns
    \cup ClockRuns
    \cup LookupRuns
    \cup DatasetRuns
    \cup StatusRuns

Init ==
    /\ \E v \in Invocations :
        /\ entry = v.entry
        /\ args = [limit |-> v.limit, isManual |-> v.isManual, today |-> v.today,
                   outageAt |-> v.outageAt, auth |-> v.auth,
                   missing |-> v.missing, address |-> v.address,
                   dataset |-> v.dataset, requests |-> v.requests]
        /\ ledgerSize = v.size
        /\ ledger = v.ledger
        /\ faulty = v.faulty
        /\ now = v.now
        /\ mappings = v.mappings
    /\ pc = "start"
    /\ status = [f \in Functions |-> "idle"]
    /\ calls = <<>>
    /\ allAccounts = <<>>
    /\ currentOffset = 0
    /\ hasMoreData = TRUE
    /\ capWarned = FALSE
    /\ idx = 1
    /\ accountActivities = <<>>
    /\ txResponse = NoResponse
    /\ skipped = {}
    /\ epc = "idle"
    /\ jdx = 1
    /\ enhancedAccounts = <<>>
    /\ customerApiFailures = 0
    /\ enhancementEnabled = TRUE
    /\ custResponse = [kind |-> "none", code |-> 0, data |-> NoCustomer]
    /\ timedOut = FALSE
    /\ communicationNeeded = <<>>
    /\ closureNeeded = <<>>
    /\ posted = <<>>
    /\ result = <<>>
    /\ response = 0
    /\ invocation = 1
    /\ mappingFetches = 0
    /\ abandoned = <<>>

Next ==
    \/ routeReject
    \/ invoke
    \/ lookupCompany
    \/ getAccountsPage
    \/ getAccountsPause
    \/ getAccountsReturn
    \/ resolveAccount
    \/ resolvePause
    \/ resolveReturn
    \/ enhanceStart
    \/ loadMappings
    \/ throttle
    \/ enhanceAccount
    \/ abandonedEnhancement
    \/ raceEnhanced
    \/ raceTimeout
    \/ communicationAlert
    \/ closureAlert
    \/ catchError
    \/ sendStatusMessage
    \/ statusMessage
    \/ getAccountSummary
    \/ invokeAgain

Spec == Init /\ [][Next]_vars

\* Every awaited page request is answered and every pause of getAccounts
\* ends: the steps of getAccounts are taken when they stay possible.
FairSpec ==
    Spec /\ WF_vars(getAccountsPage) /\ WF_vars(getAccountsPause)
         /\ WF_vars(getAccountsReturn)

\* ------------------------------------------------------------ properties

\* The accountIds of a sequence of records, in order.
Ids(records) == [k \in DOMAIN records |-> records[k].accountId]

\* getDormantAccounts has returned its two arrays.
DormantReturned == status["getDormantAccounts"] = "returned"

\* The array getDormantAccounts classified (its local allAccounts).
Analysed == IF timedOut THEN accountActivities ELSE enhancedAccounts

Flagged == Range(communicationNeeded) \cup Range(closureNeeded)

\* C1: no account whose status is Closed or Frozen is ever in
\* communicationNeeded or in closureNeeded, whatever its activity and ages.
C1_ClosedFrozenNeverFlagged ==
    \A account \in Flagged : account.status \notin {"Closed", "Frozen"}

\* A Frozen and a Closed account, each old enough to be flagged were it
\* Open, have been classified.
C1_Witness ==
    /\ DormantReturned
    /\ \E k \in DOMAIN Analysed :
        /\ Analysed[k].status = "Frozen"
        /\ Analysed[k].hasActivity
        /\ Analysed[k].daysSinceLastActivity >= CLOSURE_DAYS
    /\ \E k \in DOMAIN Analysed :
        /\ Analysed[k].status = "Closed"
        /\ ~Analysed[k].hasActivity
        /\ Analysed[k].daysSinceCreation >= NO_ACTIVITY_CLOSURE_DAYS

\* C2: the two outputs are disjoint and neither holds an account twice.
C2_OutputsDisjoint ==
    /\ Range(Ids(communicationNeeded)) \cap Range(Ids(closureNeeded)) = {}
    /\ \A i, j \in DOMAIN communicationNeeded :
        communicationNeeded[i].accountId = communicationNeeded[j].accountId => i = j
    /\ \A i, j \in DOMAIN closureNeeded :
        closureNeeded[i].accountId = closureNeeded[j].accountId => i = j

\* Both outputs are non-empty, the closure one through an account with
\* activity past both thresholds.
C2_Witness ==
    /\ DormantReturned
    /\ communicationNeeded # <<>>
    /\ \E account \in Range(closureNeeded) :
        account.hasActivity /\ account.daysSinceLastActivity >= CLOSURE_DAYS

\* C3: an account that is neither Closed nor Frozen and has activity is in
\* closureNeeded iff daysSinceLastActivity >= 365, in communicationNeeded iff
\* 270 <= daysSinceLastActivity < 365, and so in neither iff it is < 270.
C3_ActivityThresholds ==
    DormantReturned =>
        \A k \in DOMAIN Analysed :
            LET account == Analysed[k]
            IN (account.status \notin {"Closed", "Frozen"} /\ account.hasActivity) =>
                /\ (account.accountId \in Range(Ids(closureNeeded))
                        <=> account.daysSinceLastActivity >= 365)
                /\ (account.accountId \in Range(Ids(communicationNeeded))
                        <=> (account.daysSinceLastActivity >= 270
                             /\ account.daysSinceLastActivity < 365))

\* An Open account 269 days idle and one 270 days idle have been classified.
C3_Witness ==
    /\ DormantReturned
    /\ \E i, j \in DOMAIN Analysed :
        /\ Analysed[i].status = "Open" /\ Analysed[i].hasActivity
        /\ Analysed[i].daysSinceLastActivity = 269
        /\ Analysed[i] \notin Flagged
        /\ Analysed[j].status = "Open" /\ Analysed[j].hasActivity
        /\ Analysed[j].daysSinceLastActivity = 270
        /\ Analysed[j] \in Range(communicationNeeded)

\* C4: an account that is neither Closed nor Frozen and has no activity is
\* in closureNeeded iff daysSinceCreation >= 120 and never in
\* communicationNeeded.
C4_NoActivityThreshold ==
    DormantReturned =>
        \A k \in DOMAIN Analysed :
            LET account == Analysed[k]
            IN (account.status \notin {"Closed", "Frozen"} /\ ~account.hasActivity) =>
                /\ (account.accountId \in Range(Ids(closureNeeded))
                        <=> account.daysSinceCreation >= 120)
                /\ account.accountId \notin Range(Ids(communicationNeeded))

\* An Open account without activity 119 days old and one 120 days old have
\* been classified.
C4_Witness ==
    /\ DormantReturned
    /\ \E i, j \in DOMAIN Analysed :
        /\ Analysed[i].status = "Open" /\ ~Analysed[i].hasActivity
        /\ Analysed[i].daysSinceCreation = 119
        /\ Analysed[i] \notin Flagged
        /\ Analysed[j].status = "Open" /\ ~Analysed[j].hasActivity
        /\ Analysed[j].daysSinceCreation = 120
        /\ Analysed[j] \in Range(closureNeeded)

\* The record as getAllAccountsWithActivity built it: the enrichment fields
\* back at their Phase 1 values.
CoreOf(record) ==
    [record EXCEPT !.customerName = <<"Account", ToString(record.accountId)>>,
                   !.customerEmail = "",
                   !.customerAddress = <<>>,
                   !.companyName = "",
                   !.companyId = 0]

\* C5: for a fixed ledger and fixed transaction answers, that is for fixed
\* core records, the two outputs hold the accounts the classification of the
\* unenriched core records holds, however the mapping source, the customer
\* lookups and the Phase 2 timer behave; only enrichment fields differ.
C5_EnrichmentNeverChangesMembership ==
    DormantReturned =>
        /\ [k \in DOMAIN communicationNeeded |-> CoreOf(communicationNeeded[k])]
                = Classify(accountActivities).communicationNeeded
        /\ [k \in DOMAIN closureNeeded |-> CoreOf(closureNeeded[k])]
                = Classify(accountActivities).closureNeeded

\* An account enriched with a company sits in communicationNeeded and one
\* whose customer lookup failed sits, unenriched, in closureNeeded.
C5_Witness ==
    /\ DormantReturned
    /\ ~timedOut
    /\ customerApiFailures > 0
    /\ \E account \in Range(communicationNeeded) : account.companyName = "Acme"
    /\ \E account \in Range(closureNeeded) : account = CoreOf(account)

\* The page requests issued so far, and the length of the page each one is
\* answered with.
PageRequests == SelectSeq(calls, LAMBDA c : c.api = "accounts")
PageSize(k) == PageLength(ledgerSize, args.limit, PageRequests[k].arg)

FetchReturned == status["getAccounts"] = "returned"

\* No request follows a page shorter than the page size.
NoRequestAfterShortPage ==
    \A k \in 1..(Len(PageRequests) - 1) : PageSize(k) = args.limit

\* C6 as stated: no request follows a short page, and when the last
\* non-empty page of the ledger is full, exactly one more request follows it
\* and is answered with a short or empty page.
C6_AsStated ==
    /\ NoRequestAfterShortPage
    /\ (FetchReturned /\ ledgerSize > 0 /\ ledgerSize % args.limit = 0) =>
        /\ Len(PageRequests) = (ledgerSize \div args.limit) + 1
        /\ PageSize(Len(PageRequests)) < args.limit

\* C6 amended: no request follows a short page; a full last page is
\* followed by exactly one more request, answered short or empty, on a
\* ledger of at most 50,000 accounts; no request is issued once the
\* accumulated total has exceeded 50,000, so that on a longer ledger the
\* fetch ends with the first page that takes the total above 50,000, be
\* that page full or short.
C6_PaginationStops ==
    /\ NoRequestAfterShortPage
    /\ (FetchReturned /\ ledgerSize > 0 /\ ledgerSize % args.limit = 0
            /\ ledgerSize <= MAX_ACCOUNTS) =>
        /\ Len(PageRequests) = (ledgerSize \div args.limit) + 1
        /\ PageSize(Len(PageRequests)) < args.limit
    /\ \A k \in DOMAIN PageRequests : PageRequests[k].arg <= MAX_ACCOUNTS
    /\ (FetchReturned /\ ledgerSize > MAX_ACCOUNTS) =>
        /\ Len(PageRequests) = (MAX_ACCOUNTS \div args.limit) + 1
        /\ Len(allAccounts) > MAX_ACCOUNTS
        /\ Len(allAccounts) - PageSize(Len(PageRequests)) <= MAX_ACCOUNTS

\* A ledger of two full pages: a third request found the empty page and
\* the fetch returned both pages.
C6_Witness ==
    /\ FetchReturned
    /\ ledgerSize = 2 * args.limit
    /\ Len(allAccounts) = ledgerSize
    /\ Len(PageRequests) = 3
    /\ PageSize(2) = args.limit
    /\ PageSize(3) = 0

\* C7: getAccounts issues no further page request once the accumulated
\* accounts reach 50,000, and then returns them instead of raising.
C7_StopsAtCap ==
    /\ (status["getAccounts"] = "running" /\ Len(allAccounts) >= 50000)
            => ~hasMoreData
    /\ (Len(allAccounts) >= 50000) => status["getAccounts"] # "raised"

PageFailed == status["getAccounts"] = "raised"

\* C8: a failed page request is not retried; getAccounts and
\* getDormantAccounts raise and nothing is resolved or classified;
\* checkDormantAccounts posts no dormancy alert and returns success=false,
\* which no successful run returns.
C8_PageFailureFailsRun ==
    PageFailed =>
        /\ \A i, j \in DOMAIN PageRequests :
                PageRequests[i].arg = PageRequests[j].arg => i = j
        /\ \A k \in DOMAIN calls : calls[k].api \in {"accounts", "slack:error"}
        /\ \A k \in 1..(Len(calls) - 1) : calls[k].api = "accounts"
        /\ accountActivities = <<>>
        /\ communicationNeeded = <<>> /\ closureNeeded = <<>>
        /\ status["enhanceAccountsWithAddressMapping"] = "idle"
        /\ entry \in {"getDormantAccounts", "checkDormantAccounts"}
                => status["getDormantAccounts"] = "raised"
        /\ entry = "checkDormantAccounts" =>
            /\ pc \in {"catch", "done"}
            /\ \A k \in DOMAIN posted : posted[k].type = "error"
            /\ pc = "done" =>
                /\ result # <<>>
                /\ result[1].success = FALSE
                /\ result # Completed(<<>>, <<>>)

\* checkDormantAccounts has returned after a page request failed and the
\* error alert was posted.
C8_Witness ==
    /\ PageFailed
    /\ entry = "checkDormantAccounts"
    /\ pc = "done"
    /\ result = Failed
    /\ Len(posted) = 1

\* The transaction lookups requested so far; the latest awaits its answer
\* while the loop is suspended at it.
TransactionLookups == SelectSeq(calls, LAMBDA c : c.api = "transactions")
LookupPending == pc = "resolve" /\ idx <= Len(allAccounts)

\* The account of the latest answered transaction lookup, the one
\* txResponse answers (0: none).
LookedUp ==
    LET n == Len(TransactionLookups) - (IF LookupPending THEN 1 ELSE 0)
    IN IF n > 0 THEN TransactionLookups[n].arg ELSE 0

\* C9: after a transaction lookup answered 404, the account has its record,
\* with hasActivity=false, and nothing was raised or skipped.
C9_NotFoundMeansNoActivity ==
    (txResponse.kind = "http" /\ txResponse.code = 404) =>
        LET id == LookedUp
            record == accountActivities[Len(accountActivities)]
        IN /\ accountActivities # <<>>
           /\ record.accountId = id
           /\ record.hasActivity = FALSE
           /\ record.daysSinceLastActivity = 0
           /\ id \notin skipped
           /\ status["getAllAccountsWithActivity"] # "raised"
           /\ pc # "catch" \/ status["getDormantAccounts"] = "returned"

\* The lookup for the last account, which has a transaction in the ledger,
\* answered 404 and getAllAccountsWithActivity has returned.
C9_Witness ==
    /\ txResponse.code = 404
    /\ status["getAllAccountsWithActivity"] = "returned"
    /\ LedgerAccount(allAccounts[Len(allAccounts)]).lastTx # <<>>
    /\ Len(accountActivities) = 2

\* The account's own data makes its loop iteration raise.
RaisesInProcessing(id) ==
    \/ ~LedgerAccount(id).hasCustomer
    \/ LedgerAccount(id).lastTx = <<MalformedTransaction>>

\* C10: an account whose resolution fails never aborts the batch: the
\* records are those of the other accounts processed so far, one each, in
\* fetch order, a failed lookup alone costs no record, and the call returns.
C10_FailingAccountNeverAbortsBatch ==
    /\ Ids(accountActivities)
          = SelectSeq(SubSeq(allAccounts, 1, idx - 1), LAMBDA id : id \notin skipped)
    /\ \A id \in skipped : RaisesInProcessing(id)
    /\ status["getAllAccountsWithActivity"] = "raised" => PageFailed
    /\ (pc = "resolve" /\ idx > Len(allAccounts))
            => ENABLED resolveReturn

\* Of two accounts the first raised in processing and the second, whose
\* lookup failed without a response, has its record; the call has returned.
C10_Witness ==
    /\ status["getAllAccountsWithActivity"] = "returned"
    /\ Len(allAccounts) = 2
    /\ skipped = {1}
    /\ Ids(accountActivities) = <<2>>
    /\ txResponse.kind = "network"

\* C11: a transaction lookup answered with a rate-limit (429) response
\* aborts the run: getAllAccountsWithActivity raises instead of going on
\* to the next account.
C11_RateLimitAbortsRun ==
    (txResponse.kind = "http" /\ txResponse.code = 429) =>
        /\ status["getAllAccountsWithActivity"] = "raised"
        /\ pc \in {"catch", "done"}

\* The lookup that produced the last record is the latest one.
LastRecordIsLatestLookup ==
    /\ accountActivities # <<>>
    /\ accountActivities[Len(accountActivities)].accountId = LookedUp

\* C12: in every record of getAllAccountsWithActivity hasActivity is true
\* iff the lookup found a transaction, lastActivity is present iff
\* hasActivity is true, and daysSinceLastActivity is 0 without activity.
C12_ActivityFieldsConsistent ==
    /\ \A k \in DOMAIN accountActivities :
        LET record == accountActivities[k]
            account == LedgerAccount(record.accountId)
        IN /\ record.hasActivity <=> (record.lastActivity # <<>>)
           /\ ~record.hasActivity => record.daysSinceLastActivity = 0
           /\ record.hasActivity =>
                /\ account.lastTx # <<>>
                /\ record.lastActivity = <<now - account.lastTx[1].age>>
           /\ "ledger" \notin faulty =>
                (record.hasActivity <=> account.lastTx # <<>>)
    /\ LastRecordIsLatestLookup =>
        (accountActivities[Len(accountActivities)].hasActivity
            <=> (txResponse.kind = "ok" /\ txResponse.data # <<>>))

\* Two records: the first with the transaction its lookup found, the second
\* without activity because its lookup was refused, although the ledger
\* holds a transaction of the account.
C12_Witness ==
    /\ status["getAllAccountsWithActivity"] = "returned"
    /\ Len(accountActivities) = 2
    /\ accountActivities[1].hasActivity
    /\ accountActivities[1].daysSinceLastActivity = 270
    /\ ~accountActivities[2].hasActivity
    /\ LedgerAccount(accountActivities[2].accountId).lastTx # <<>>
    /\ txResponse.code = 403

SummaryReturned == status["getAccountSummary"] = "returned"

\* The accounts of a status among those fetched from the ledger and
\* resolved.
FetchedWithStatus(st) ==
    {k \in DOMAIN allAccounts :
        /\ allAccounts[k] \notin skipped
        /\ LedgerAccount(allAccounts[k]).status = st}

\* C13: getAccountSummary tallies the accounts of every status, Closed and
\* Frozen included; the counts sum to totalAccounts; and no Closed or
\* Frozen account is in communicationSoon or closureSoon.
C13_TallyCountsEveryStatus ==
    SummaryReturned =>
        LET summary == result[1]
        IN /\ \A st \in Statuses :
                summary.accountsByStatus[st] = Cardinality(FetchedWithStatus(st))
           /\ summary.accountsByStatus["Open"] + summary.accountsByStatus["Closed"]
                + summary.accountsByStatus["Frozen"] = summary.totalAccounts
           /\ summary.totalAccounts = Len(allAccounts) - Cardinality(skipped)
           /\ \A account \in Range(summary.communicationSoon)
                        \cup Range(summary.closureSoon) :
                account.status = "Open"

\* A Closed account whose last transaction is 269 days old is counted in
\* the tally and absent from communicationSoon, which holds the Open
\* account of the same age.
C13_Witness ==
    /\ SummaryReturned
    /\ Len(accountActivities) = 2
    /\ accountActivities[1].status = "Closed"
    /\ accountActivities[1].daysSinceLastActivity = 269
    /\ accountActivities[2].status = "Open"
    /\ accountActivities[2].daysSinceLastActivity = 269
    /\ result[1].accountsByStatus["Closed"] = 1
    /\ result[1].communicationSoon = <<accountActivities[2]>>

\* The fields enrichment must leave alone are equal in the two records.
SameCore(a, b) ==
    /\ a.accountId = b.accountId
    /\ a.customerId = b.customerId
    /\ a.status = b.status
    /\ a.balance = b.balance
    /\ a.hasActivity = b.hasActivity
    /\ a.daysSinceLastActivity = b.daysSinceLastActivity
    /\ a.daysSinceCreation = b.daysSinceCreation

EnhanceReturned == status["enhanceAccountsWithAddressMapping"] = "returned"

\* C14: enhanceAccountsWithAddressMapping never raises; what it has built,
\* and what it returns, follows its input position by position with the
\* core fields unchanged, and the output is as long as the input.
C14_EnrichmentIsTotal ==
    /\ status["enhanceAccountsWithAddressMapping"] # "raised"
    /\ Len(enhancedAccounts) <= Len(accountActivities)
    /\ \A k \in DOMAIN enhancedAccounts :
            SameCore(enhancedAccounts[k], accountActivities[k])
    /\ epc \in {"lookup", "throttle"} =>
            /\ Len(enhancedAccounts) = jdx - 1
            /\ jdx <= Len(accountActivities)
    /\ epc \in {"load", "lookup", "throttle"} =>
            ENABLED (loadMappings \/ throttle \/ enhanceAccount)
    /\ EnhanceReturned <=> epc = "done"
    /\ EnhanceReturned => Len(enhancedAccounts) = Len(accountActivities)

\* The call returned two records although the mapping source was down and
\* one of the two customer lookups failed; the other record is enriched.
C14_Witness ==
    /\ EnhanceReturned
    /\ Len(enhancedAccounts) = 2
    /\ mappings.table = <<>>
    /\ customerApiFailures = 1
    /\ \E k \in 1..2 : enhancedAccounts[k].customerEmail # ""
    /\ \E k \in 1..2 : enhancedAccounts[k] = accountActivities[k]

\* The load of the mapping dataset failed: the fallback {} is in place.
MappingLoadFailed == mappings.loaded /\ mappings.table = <<>>

\* C15: when loading the mapping dataset fails, the call returns every
\* input record unchanged, enrichment fields included.
C15_LoadFailureReturnsInput ==
    (EnhanceReturned /\ MappingLoadFailed) => enhancedAccounts = accountActivities

\* C16: once MAX_FAILURES customer lookups have failed no further lookup
\* is made: the count never exceeds 25, under an outage starting at lookup
\* n there are at most n - 1 + 25 lookups, the records before the outage
\* keep their enrichment, every record past the last lookup equals its
\* input, and the call returns all records.
C16_BreakerStopsLookups ==
    /\ customerApiFailures <= 25
    /\ AnsweredLookups <= Len(enhancedAccounts)
    /\ "outage" \in faulty =>
        /\ CustomerLookups <= args.outageAt - 1 + 25
        /\ \A k \in DOMAIN enhancedAccounts :
                k < args.outageAt => enhancedAccounts[k].companyName = "Acme"
    /\ \A k \in DOMAIN enhancedAccounts :
            k > CustomerLookups => enhancedAccounts[k] = accountActivities[k]
    /\ status["enhanceAccountsWithAddressMapping"] # "raised"
    /\ (customerApiFailures >= 25 /\ epc = "done") =>
        /\ EnhanceReturned
        /\ Len(enhancedAccounts) = Len(accountActivities)

\* The outage began at the second lookup: the first account is enriched,
\* 25 lookups failed, the accounts after them were not looked up, and the
\* call returned every record.
C16_Witness ==
    /\ EnhanceReturned
    /\ args.outageAt = 2
    /\ customerApiFailures = 25
    /\ CustomerLookups = 26
    /\ Len(enhancedAccounts) > 26
    /\ enhancedAccounts[1].companyName = "Acme"
    /\ enhancedAccounts[27] = accountActivities[27]

\* The latest answer to a customer lookup is that of the first of the call.
FirstLookup == AnsweredLookups = 1 /\ custResponse.kind # "none"

\* C17: a 'not found' answer is not counted as a failure, and a transport
\* error, a 403 and a 429 are each counted as one.
C17_FailureAccounting ==
    /\ (custResponse.kind = "http" /\ custResponse.code = 404)
            => customerApiFailures < AnsweredLookups
    /\ (FirstLookup /\ custResponse.kind = "http" /\ custResponse.code = 404)
            => customerApiFailures = 0
    /\ (FirstLookup /\ (\/ custResponse.kind \in {"timeout", "network"}
                        \/ custResponse.kind = "http"
                            /\ custResponse.code \in {403, 429}))
            => customerApiFailures = 1

\* C18: when the timer fires before enrichment has completed,
\* getDormantAccounts classifies the core records: both sets are those of
\* the unenriched records and no record in them has an enrichment field,
\* whatever the enrichment goes on to do.
C18_TimeoutDiscardsEnrichment ==
    (DormantReturned /\ timedOut) =>
        /\ communicationNeeded = Classify(accountActivities).communicationNeeded
        /\ closureNeeded = Classify(accountActivities).closureNeeded
        /\ \A account \in Flagged : account = CoreOf(account)

\* The timer fired, both sets were returned non-empty and unenriched, and
\* the enrichment, left running, has since enriched a flagged account.
C18_Witness ==
    /\ DormantReturned
    /\ timedOut
    /\ communicationNeeded # <<>>
    /\ closureNeeded # <<>>
    /\ epc = "done"
    /\ \E k \in DOMAIN enhancedAccounts :
            /\ enhancedAccounts[k].companyName = "Acme"
            /\ CoreOf(enhancedAccounts[k]) \in Flagged

\* The requests to the ledger, the mapping source and the identity API,
\* in the order they were issued, and the stage each belongs to.
ApiCalls == SelectSeq(calls, LAMBDA c : c.api \in {"accounts", "transactions",
                                                   "mappings", "customers"})
StageOf(api) ==
    CASE api = "accounts" -> 1
      [] api = "transactions" -> 2
      [] OTHER -> 3

\* The account numbers of the lookups of one kind, in the order issued.
LookupsOf(api) ==
    LET made == SelectSeq(calls, LAMBDA c : c.api = api)
    IN [k \in DOMAIN made |-> made[k].arg]

\* The requests of the invocation to the ledger and identity APIs that
\* await their answer.
InFlight ==
    (IF pc = "getAccounts" THEN 1 ELSE 0)
    + (IF LookupPending THEN 1 ELSE 0)
    + (IF epc = "lookup" THEN 1 ELSE 0)

\* C19: the stages of an invocation follow one another: every request of a
\* stage is issued after the previous stage has finished, the lookups of a
\* stage go through the accounts one by one in order, classification comes
\* after enrichment has returned or timed out, the main flow issues no
\* request while the enrichment, the only other activity, is running, and
\* at most one request to the ledger and identity APIs awaits its answer.
C19_StagesRunInSequence ==
    /\ \A i \in 1..(Len(ApiCalls) - 1) :
            StageOf(ApiCalls[i].api) <= StageOf(ApiCalls[i + 1].api)
    /\ LookupsOf("transactions") # <<>> =>
            /\ status["getAccounts"] = "returned"
            /\ ~hasMoreData
    /\ (LookupsOf("customers") # <<>> \/ LookupsOf("mappings") # <<>>) =>
            /\ status["getAllAccountsWithActivity"] = "returned"
            /\ idx > Len(allAccounts)
    /\ \A api \in {"transactions", "customers"} :
            \A i \in 1..(Len(LookupsOf(api)) - 1) :
                LookupsOf(api)[i] < LookupsOf(api)[i + 1]
    /\ (DormantReturned \/ communicationNeeded # <<>> \/ closureNeeded # <<>>)
            => (timedOut \/ EnhanceReturned)
    /\ epc \in {"load", "lookup", "throttle"} =>
            pc \in {"race", "communicationAlert", "closureAlert", "catch", "done"}
    /\ InFlight <= 1

\* A run on two accounts went through one page, two transaction lookups,
\* the mapping load and two customer lookups, in that order, and then
\* classified.
C19_Witness ==
    /\ DormantReturned
    /\ ~timedOut
    /\ [k \in DOMAIN ApiCalls |-> ApiCalls[k].api]
            = <<"accounts", "transactions", "transactions", "mappings",
                "customers", "customers">>
    /\ LookupsOf("transactions") = <<1, 2>>
    /\ LookupsOf("customers") = <<1, 2>>

\* C20: however many invocations the process serves, the mapping dataset
\* is fetched at most once.
C20_MappingsFetchedAtMostOnce == mappingFetches <= 1

\* C21: an automated checkDormantAccounts on a Saturday or Sunday issues no
\* request, starts no fetch, posts no alert and returns success=true with
\* both counts 0; a manual one starts the fetch whatever the day, and when
\* every upstream answers it analyses every account of the ledger and
\* reports the sizes of the two sets it computed.
C21_WeekendSkipManualRuns ==
    (entry = "checkDormantAccounts" /\ response = 0) =>
        /\ (~args.isManual /\ args.today \in {0, 6}) =>
              /\ calls = <<>>
              /\ posted = <<>>
              /\ \A f \in Functions \ {"checkDormantAccounts"} : status[f] = "idle"
              /\ pc \in {"start", "done"}
              /\ pc = "done" =>
                    /\ Len(result) = 1
                    /\ result[1].success
                    /\ result[1].communicationNeeded = 0
                    /\ result[1].closureNeeded = 0
        /\ (args.isManual /\ pc # "start") =>
              /\ status["getAccounts"] # "idle"
              /\ (pc = "done" /\ faulty = {}) =>
                    /\ DormantReturned
                    /\ Len(accountActivities) = ledgerSize
                    /\ Len(result) = 1
                    /\ result[1].success
                    /\ result[1].communicationNeeded = Len(communicationNeeded)
                    /\ result[1].closureNeeded = Len(closureNeeded)
                    /\ Len(posted) = (IF communicationNeeded = <<>> THEN 0 ELSE 1)
                                     + (IF closureNeeded = <<>> THEN 0 ELSE 1)

\* An automated Sunday run over a ledger holding an account due for closure
\* has returned.
C21_Witness ==
    /\ entry = "checkDormantAccounts"
    /\ ~args.isManual
    /\ args.today = 0
    /\ ledgerSize = 1
    /\ FlagsClosure(Activity(1, ledger[1], ledger[1].lastTx))
    /\ pc = "done"
    /\ result = Skipped
    /\ calls = <<>>

\* C22: a request to a route whose required credential or URL is unset
\* (the token and the base URL on every route, the webhook URL on
\* check-dormant and summary) is answered with an error status, and no
\* request to the ledger, the identity service, the mapping source or Slack
\* is ever issued for it.
C22_MissingConfigFailsFast ==
    LET needed == IF entry = "getDormantAccounts"
                  THEN {"UNIT_API_TOKEN", "UNIT_API_BASE_URL"}
                  ELSE {"UNIT_API_TOKEN", "UNIT_API_BASE_URL", "SLACK_WEBHOOK_URL"}
    IN (entry \in Routes /\ needed \cap args.missing # {}) =>
          /\ calls = <<>>
          /\ posted = <<>>
          /\ mappingFetches = 0
          /\ \A f \in Functions : status[f] = "idle"
          /\ pc \in {"start", "done"}
          /\ pc = "done" =>
                /\ response \in {401, 500}
                /\ args.auth # "denied" => response = 500

\* An authorised request to /api/check-dormant without SLACK_WEBHOOK_URL has
\* been answered 500.
C22_Witness ==
    /\ entry = "checkDormantAccounts"
    /\ args.auth = "granted"
    /\ args.missing = {"SLACK_WEBHOOK_URL"}
    /\ ledgerSize = 1
    /\ pc = "done"
    /\ response = 500
    /\ calls = <<>>

\* C23: with CRON_SECRET set, a request to any of the three routes that
\* lacks the matching authorization header is answered 401, and neither a
\* ledger fetch nor an analysis is started for it.
C23_EveryEndpointProtected ==
    (entry \in Routes /\ args.auth = "denied") =>
        /\ calls = <<>>
        /\ \A f \in Functions : status[f] = "idle"
        /\ pc = "done" => response = 401

\* C24: in the summary, an analysed account is in communicationSoon exactly
\* when it is neither Closed nor Frozen, has activity and was last active
\* 240 to 269 days ago; it is in closureSoon exactly when it is neither
\* Closed nor Frozen and either has activity and was last active 330 to 364
\* days ago, or has none and was created 100 to 119 days ago.  Both lists
\* hold analysed accounts only.
C24_UpcomingWindows ==
    SummaryReturned =>
        LET s == result[1]
            eligible(a) == a.status # "Closed" /\ a.status # "Frozen"
        IN /\ Range(s.communicationSoon) \subseteq Range(accountActivities)
           /\ Range(s.closureSoon) \subseteq Range(accountActivities)
           /\ \A k \in DOMAIN accountActivities :
                LET a == accountActivities[k]
                IN /\ (a \in Range(s.communicationSoon)) <=>
                        /\ eligible(a)
                        /\ a.hasActivity
                        /\ a.daysSinceLastActivity >= 240
                        /\ a.daysSinceLastActivity < 270
                   /\ (a \in Range(s.closureSoon)) <=>
                        /\ eligible(a)
                        /\ \/ /\ a.hasActivity
                              /\ a.daysSinceLastActivity >= 330
                              /\ a.daysSinceLastActivity < 365
                           \/ /\ ~a.hasActivity
                              /\ a.daysSinceCreation >= 100
                              /\ a.daysSinceCreation < 120

\* A summary over an account last active exactly 240 days ago and an
\* account without activity created exactly 100 days ago lists the first as
\* communicationSoon and the second as closureSoon.
C24_Witness ==
    /\ SummaryReturned
    /\ Len(accountActivities) = 2
    /\ accountActivities[1].hasActivity
    /\ accountActivities[1].daysSinceLastActivity = 240
    /\ ~accountActivities[2].hasActivity
    /\ accountActivities[2].daysSinceCreation = 100
    /\ result[1].communicationSoon = <<accountActivities[1]>>
    /\ result[1].closureSoon = <<accountActivities[2]>>

\* C25: getCompanyName returns the company of the key equal to the address;
\* failing that, of the first key equal to it ignoring case; failing that,
\* when the extracted street part exists and differs from the address, of
\* the key equal to the street part, and failing that of the first key equal
\* to the street part ignoring case; and null ("") when nothing matches, when
\* the address is empty or when no mappings are loaded.  The call always
\* returns.
C25_MatchOrder ==
    (entry = "getCompanyName" /\ pc = "done") =>
        LET t == mappings.table
            a == args.address
            street == extractStreetAddress(a)
            exact(key) == {k \in DOMAIN t : t[k].address = key}
            anycase(key) ==
                {k \in DOMAIN t : toLowerCase(t[k].address) = toLowerCase(key)}
            first(S) == CHOOSE k \in S : \A h \in S : k <= h
            useStreet == street # <<>> /\ street # a
            name == result[1].companyName
        IN /\ Len(result) = 1
           /\ IF ~mappings.loaded \/ a = <<>> THEN name = ""
              ELSE IF exact(a) # {} THEN name = t[first(exact(a))].CompanyName
              ELSE IF anycase(a) # {} THEN name = t[first(anycase(a))].CompanyName
              ELSE IF useStreet /\ exact(street) # {}
                THEN name = t[first(exact(street))].CompanyName
              ELSE IF useStreet /\ anycase(street) # {}
                THEN name = t[first(anycase(street))].CompanyName
              ELSE name = ""

\* A full address whose street part equals the second key, and equals the
\* first key ignoring case, resolves to the company of the second key.
C25_Witness ==
    /\ entry = "getCompanyName"
    /\ pc = "done"
    /\ Len(mappings.table) = 2
    /\ mappings.table[1].address = <<"548", "main", "rd">>
    /\ mappings.table[2].address = <<"548", "Main", "Rd">>
    /\ args.address = <<"548", "Main", "Rd", "Charlotte", "NC", "28203">>
    /\ result[1].companyName = "Acme"

\* The words of `phrase` occur consecutively in `text`.
Mentions(text, phrase) ==
    \E i \in 1..(Len(text) - Len(phrase) + 1) :
        SubSeq(text, i, i + Len(phrase) - 1) = phrase

\* C26: a closure alert is built exactly for a non-empty closureNeeded; its
\* reason mentions "120 days", and it mentions "12 months of inactivity"
\* exactly when some account of the set has activity.
C26_ClosureReason ==
    /\ pc = "closureAlert" =>
          /\ closureNeeded # <<>>
          /\ Mentions(ClosureReason(closureNeeded), <<"120", "days">>)
          /\ Mentions(ClosureReason(closureNeeded),
                      <<"12", "months", "of", "inactivity">>)
                <=> \E k \in DOMAIN closureNeeded : closureNeeded[k].hasActivity
    /\ \A k \in DOMAIN posted :
          posted[k].type = "closure_needed" =>
              /\ posted[k].accounts = closureNeeded
              /\ closureNeeded # <<>>
              /\ Mentions(posted[k].alertReason, <<"120", "days">>)
              /\ Mentions(posted[k].alertReason,
                          <<"12", "months", "of", "inactivity">>)
                    <=> \E j \in DOMAIN closureNeeded : closureNeeded[j].hasActivity
    /\ (entry = "checkDormantAccounts" /\ pc = "done" /\ Len(result) = 1
          /\ result[1].success /\ closureNeeded # <<>>) =>
              \E k \in DOMAIN posted : posted[k].type = "closure_needed"

\* Closure alerts have been posted for a set without any active account.
C26_Witness ==
    /\ pc = "done"
    /\ Len(closureNeeded) = 2
    /\ \A j \in DOMAIN closureNeeded : ~closureNeeded[j].hasActivity
    /\ \E k \in DOMAIN posted :
          /\ posted[k].type = "closure_needed"
          /\ posted[k].accounts = closureNeeded
          /\ Mentions(posted[k].alertReason, <<"120", "days">>)
          /\ ~Mentions(posted[k].alertReason, <<"12", "months">>)

\* C27: every AccountActivity record carries daysSinceCreation >= 0 and
\* daysSinceLastActivity >= 0.
C27_DaysNonNegative ==
    \A k \in DOMAIN accountActivities :
        /\ accountActivities[k].daysSinceCreation >= 0
        /\ accountActivities[k].daysSinceLastActivity >= 0

\* The calendar day (UTC) an instant falls on: hour 0 is a midnight.
CalendarDay(t) == IF t >= 0 THEN t \div 24 ELSE -((23 - t) \div 24)

\* C28: daysSinceCreation is the number of calendar days from the day of the
\* account's creation to the day of the analysis, and daysSinceLastActivity,
\* for an account with activity, the number of calendar days from the day
\* of its most recent transaction.
C28_CalendarDayDifference ==
    \A k \in DOMAIN accountActivities :
        LET a == accountActivities[k]
        IN /\ a.daysSinceCreation = CalendarDay(now) - CalendarDay(a.accountCreated)
           /\ a.hasActivity =>
                a.daysSinceLastActivity =
                    CalendarDay(now) - CalendarDay(a.lastActivity[1])

\* C29: getAccounts issues at most 50,000 \div L + 1 page requests, and a
\* started getAccounts ends, by returning or by rethrowing a failed request,
\* whatever the page size and the ledger, a ledger that answers every
\* requested offset with a full page included.
C29_GetAccountsTerminates ==
    /\ [](Len(PageRequests) <= (MAX_ACCOUNTS \div args.limit) + 1)
    /\ (status["getAccounts"] = "running")
            ~> (status["getAccounts"] \in {"returned", "raised"})

\* getAccounts has returned after requests that were all answered with a
\* full page: the cap stopped it.
C29_Witness ==
    /\ entry = "getAccounts"
    /\ FetchReturned
    /\ Len(PageRequests) > 1
    /\ \A k \in DOMAIN PageRequests : PageSize(k) = args.limit
    /\ capWarned

\* C30: on a ledger of at most 50,000 accounts the k-th page request of
\* getAccounts asks for offset (k-1)*L, so the offsets 0, L, 2L, ... are
\* requested in increasing order, each once; and when getAccounts returns
\* it has issued N \div L + 1 requests and returns the N accounts of the
\* ledger, each once, in ledger order.
C30_PagesInOrder ==
    ledgerSize <= MAX_ACCOUNTS =>
        /\ \A k \in DOMAIN PageRequests :
              PageRequests[k].arg = (k - 1) * args.limit
        /\ FetchReturned =>
              /\ allAccounts = [k \in 1..ledgerSize |-> k]
              /\ Len(PageRequests) = (ledgerSize \div args.limit) + 1

\* getAccounts(2) has returned the four accounts of a ledger after requests
\* at offsets 0, 2 and 4.
C30_Witness ==
    /\ entry = "getAccounts"
    /\ FetchReturned
    /\ args.limit = 2
    /\ ledgerSize = 4
    /\ allAccounts = <<1, 2, 3, 4>>
    /\ [k \in DOMAIN PageRequests |-> PageRequests[k].arg] = <<0, 2, 4>>

\* C31: the records of the array passed to enhanceAccountsWithAddressMapping
\* never carry an enrichment field, at any point of the enrichment; and after
\* a Phase 2 timeout every record classified or returned in
\* communicationNeeded or closureNeeded is a record of that array as Phase 1
\* built it, while the enrichment goes on in the background, during the
\* next request too, and after it has ended.
Unenriched(a) ==
    /\ a.customerName = <<"Account", ToString(a.accountId)>>
    /\ a.customerEmail = ""
    /\ a.customerAddress = <<>>
    /\ a.companyName = ""
    /\ a.companyId = 0

C31_InputNeverMutated ==
    /\ \A k \in DOMAIN accountActivities : Unenriched(accountActivities[k])
    /\ \A e \in Range(abandoned) :
          \A k \in DOMAIN e.accountActivities : Unenriched(e.accountActivities[k])
    /\ timedOut => Flagged \subseteq Range(accountActivities)

\* After a timeout the run has returned a flagged record, and the
\* enrichment, left running, has since ended with an enriched copy of it.
C31_Witness ==
    /\ timedOut
    /\ pc = "done"
    /\ epc = "done"
    /\ Flagged # {}
    /\ \E k \in DOMAIN enhancedAccounts :
          /\ enhancedAccounts[k].customerEmail # ""
          /\ accountActivities[k] \in Flagged

\* C32: whenever an enrichment is running, its failure count is at most the
\* number of customer lookups of the current invocation, it is zero with
\* enrichment enabled before the first iteration, and enrichment is disabled
\* only at MAX_FAILURES failures: nothing is carried over from an earlier
\* invocation, one that ended with the breaker open included, and nothing
\* is taken from the enrichment of an earlier invocation that is still
\* running, which in turn counts its own lookups only.
C32_BreakerCountPerInvocation ==
    /\ status["enhanceAccountsWithAddressMapping"] = "running" =>
        /\ customerApiFailures <= CustomerLookups
        /\ jdx = 1 => (customerApiFailures = 0 /\ enhancementEnabled)
        /\ ~enhancementEnabled => customerApiFailures >= MAX_FAILURES
    /\ \A k \in DOMAIN abandoned :
        /\ abandoned[k].customerApiFailures <= LookupsIn(abandoned[k].calls)
        /\ ~abandoned[k].enhancementEnabled
                => abandoned[k].customerApiFailures >= MAX_FAILURES

\* The identity service fails every client from its second lookup on.  The
\* first request timed out and its enrichment, still running, has counted
\* failures; in the second request the first lookup has been made and has
\* enriched its record.
C32_Witness ==
    /\ faulty = {"outage"}
    /\ args.outageAt = 2
    /\ invocation = 2
    /\ status["enhanceAccountsWithAddressMapping"] = "running"
    /\ jdx = 2
    /\ customerApiFailures = 0
    /\ enhancementEnabled
    /\ enhancedAccounts[1].customerEmail # ""
    /\ \E k \in DOMAIN abandoned :
        /\ abandoned[k].epc = "lookup"
        /\ abandoned[k].customerApiFailures > 1

\* C33: after a transaction lookup failed with an error other than 404
\* (403, 429, 500, or no response at all), the account is not skipped and
\* nothing is raised: it has its record, with hasActivity=false and
\* daysSinceLastActivity=0; and once getDormantAccounts has returned, that
\* account, when Open and created at least 120 days ago, is in closureNeeded.
C33_FailedLookupMeansNoActivity ==
    (\/ txResponse.kind = "http" /\ txResponse.code # 404
     \/ txResponse.kind = "network") =>
        LET id == LookedUp
            record == accountActivities[Len(accountActivities)]
        IN /\ accountActivities # <<>>
           /\ record.accountId = id
           /\ record.hasActivity = FALSE
           /\ record.daysSinceLastActivity = 0
           /\ id \notin skipped
           /\ status["getAllAccountsWithActivity"] # "raised"
           /\ (DormantReturned /\ record.status = "Open"
                 /\ record.daysSinceCreation >= 120) =>
                    \E k \in DOMAIN closureNeeded :
                        /\ closureNeeded[k].accountId = id
                        /\ ~closureNeeded[k].hasActivity

\* The lookup for an Open account last active 270 days ago answered 500,
\* and getDormantAccounts has returned it in closureNeeded.
C33_Witness ==
    /\ txResponse.kind = "http"
    /\ txResponse.code = 500
    /\ DormantReturned
    /\ LookedUp > 0
    /\ LedgerAccount(LookedUp).status = "Open"
    /\ LedgerAccount(LookedUp).lastTx = <<Transaction(COMMUNICATION_DAYS * 24)>>
    /\ \E k \in DOMAIN closureNeeded : closureNeeded[k].accountId = LookedUp

\* Positions in `posted` of the accepted alerts of one type, and in `calls`
\* of the posts attempted for it.
PostedOf(type) == {k \in DOMAIN posted : posted[k].type = type}
AttemptsOf(type) == {k \in DOMAIN calls : calls[k].api = type}

\* C34: in a run of checkDormantAccounts at most one communication alert
\* and at most one closure alert are attempted, the communication alert
\* first; an accepted alert carries a non-empty set, the set
\* getDormantAccounts returned for its type; and when the run has returned
\* success=true its counts are the sizes of the two sets and an alert was
\* accepted for each non-empty set.
C34_AlertsOncePerSetInOrder ==
    entry = "checkDormantAccounts" =>
        /\ Cardinality(AttemptsOf("slack:communication_needed")) <= 1
        /\ Cardinality(AttemptsOf("slack:closure_needed")) <= 1
        /\ \A i \in AttemptsOf("slack:communication_needed"),
              j \in AttemptsOf("slack:closure_needed") : i < j
        /\ Cardinality(PostedOf("communication_needed")) <= 1
        /\ Cardinality(PostedOf("closure_needed")) <= 1
        /\ \A i \in PostedOf("communication_needed"),
              j \in PostedOf("closure_needed") : i < j
        /\ \A k \in PostedOf("communication_needed") :
              posted[k].accounts # <<>> /\ posted[k].accounts = communicationNeeded
        /\ \A k \in PostedOf("closure_needed") :
              posted[k].accounts # <<>> /\ posted[k].accounts = closureNeeded
        /\ (result # <<>> /\ result[1].success) =>
              /\ pc = "done"
              /\ result[1].communicationNeeded = Len(communicationNeeded)
              /\ result[1].closureNeeded = Len(closureNeeded)
              /\ communicationNeeded # <<>> => PostedOf("communication_needed") # {}
              /\ closureNeeded # <<>> => PostedOf("closure_needed") # {}
              /\ PostedOf("error") = {}

\* A run over an account due for communication and an account due for
\* closure has returned success=true after both alerts, in that order.
C34_Witness ==
    /\ entry = "checkDormantAccounts"
    /\ pc = "done"
    /\ result # <<>>
    /\ result[1].success
    /\ result[1].communicationNeeded = 1
    /\ result[1].closureNeeded = 1
    /\ Len(posted) = 2
    /\ posted[1].type = "communication_needed"
    /\ posted[2].type = "closure_needed"

\* C35: checkDormantAccounts is never left by an exception; a run that has
\* ended has returned exactly one result object; and a result with
\* success=false has both counts 0, also when dormant accounts had been
\* found and when the error alert was not accepted either.
C35_NeverRaises ==
    entry = "checkDormantAccounts" =>
        /\ status["checkDormantAccounts"] # "raised"
        /\ (pc = "done" /\ response = 0) =>
              /\ status["checkDormantAccounts"] = "returned"
              /\ Len(result) = 1
        /\ pc # "done" => result = <<>>
        /\ (result # <<>> /\ ~result[1].success) =>
              /\ result[1].communicationNeeded = 0
              /\ result[1].closureNeeded = 0

\* Accounts due for closure were found, the closure alert failed, the error
\* alert failed too, and the run has returned success=false with counts 0.
C35_Witness ==
    /\ entry = "checkDormantAccounts"
    /\ pc = "done"
    /\ closureNeeded # <<>>
    /\ posted = <<>>
    /\ \E k \in DOMAIN calls : calls[k].api = "slack:error"
    /\ result # <<>>
    /\ ~result[1].success
    /\ result[1].closureNeeded = 0
    /\ status["checkDormantAccounts"] = "returned"

\* C36: over the records a summary was computed from, communicationSoon
\* shares no account with closureSoon, nor with the communicationNeeded or
\* the closureNeeded list the alert classification makes of the same
\* records, and closureSoon shares none with closureNeeded.
C36_UpcomingDisjointFromAlerts ==
    SummaryReturned =>
        LET s == result[1]
            c == Classify(accountActivities)
        IN /\ Range(s.communicationSoon) \cap Range(s.closureSoon) = {}
           /\ Range(s.communicationSoon) \cap Range(c.communicationNeeded) = {}
           /\ Range(s.communicationSoon) \cap Range(c.closureNeeded) = {}
           /\ Range(s.closureSoon) \cap Range(c.closureNeeded) = {}

\* A summary over an account last active 364 days ago and one last active
\* 365 days ago: the first is closureSoon (and due for communication), the
\* second is due for closure.
C36_Witness ==
    /\ SummaryReturned
    /\ Len(accountActivities) = 2
    /\ accountActivities[1].daysSinceLastActivity = CLOSURE_DAYS - 1
    /\ accountActivities[2].daysSinceLastActivity = CLOSURE_DAYS
    /\ result[1].closureSoon = <<accountActivities[1]>>
    /\ Classify(accountActivities).communicationNeeded = <<accountActivities[1]>>
    /\ Classify(accountActivities).closureNeeded = <<accountActivities[2]>>

\* C37: a direct lookup returns the name and the id of one entry of the
\* table, or neither; and every enriched record has companyId defined
\* exactly when companyName is defined, both taken from one entry of the
\* loaded table.
C37_CompanyFieldsFromOneEntry ==
    /\ (entry = "getCompanyName" /\ pc = "done") =>
          \/ result[1] = [companyName |-> "", companyId |-> 0]
          \/ \E k \in DOMAIN mappings.table :
                /\ result[1].companyName = mappings.table[k].CompanyName
                /\ result[1].companyId = mappings.table[k].Company
    /\ \A j \in DOMAIN enhancedAccounts :
          LET a == enhancedAccounts[j]
          IN /\ (a.companyId # 0) <=> (a.companyName # "")
             /\ a.companyName # "" =>
                   \E k \in DOMAIN mappings.table :
                      /\ a.companyName = mappings.table[k].CompanyName
                      /\ a.companyId = mappings.table[k].Company

====
